---- MODULE Spec2Model ----
(***************************************************************************)
(* doconvo: the retrieval-augmented chat engine and the part of the        *)
(* terminal UI that drives it.                                             *)
(*                                                                         *)
(* The UI is a single event loop (mainModel.Update); every chat turn runs  *)
(* rag.chat on its own goroutine, which sends llmResponseMsg values on the *)
(* unbuffered channel m.llmResponses; one forwarder goroutine hands them   *)
(* to the event loop.  Text is modelled as a sequence of symbols, so that  *)
(* concatenation is sequence concatenation.  Similarities are in tenths    *)
(* (5 is 0.5).                                                             *)
(***************************************************************************)
EXTENDS Integers, Sequences, FiniteSets, TLC

\* ------------------------------------------------------------------ bounds
MaxTurns == 2          \* chat turns submitted in one run
MaxSessions == 1       \* sessions in the list at one time
MaxCreated == 2        \* sessions created in one run
MaxChunks == 2         \* token chunks one provider stream produces
MaxResults == 4        \* results one index query returns (SpecRetrieve)
MaxHistory == 7        \* messages in rag.chats before a turn (SpecContext)
MaxContentLen == 1500  \* length of a document's content (SpecChunk)
MaxMergeDocs == 3      \* results handed to mergeChunks (SpecMerge)
MaxRagDocs == 22       \* results of the combined retrieval (SpecPassages)
MaxFiles == 3          \* files under a scanned path (SpecScan)
NumCPU == 2            \* runtime.NumCPU(), the size of the semaphore (SpecScan)
MaxDocuments == 3      \* source documents created in one run (SpecDocuments)
MaxCalls == 3          \* calls of one embedding function (SpecEmbed)
MaxStreamChunks == 2   \* chunks one provider stream carries (SpecStream)
MaxPromptDocs == 3     \* passages of one system prompt (SpecPrompt)
MaxRoundTripChunks == 4 \* chunks of one document (SpecRoundTrip)

\* ------------------------------------------------------- program constants
ragSimiliarityThreshold == 5
ragNeededCount == 10
chunkSize == 500
chunkOverlap == 50

roleUser == "user"
roleAssistant == "assistant"
roleSystem == "system"

viewStateSessions == "sessions"
viewStateChat == "chat"
viewStateOptions == "options"

\* The text handleChatsResponse puts in a failed assistant message.
FallbackText == <<"sorry">>

\* ------------------------------------------------------------ error values
NoErr == "nil"
ErrGetCollection == "failed to get vectordb collection"
ErrQuery == "failed to query vectordb collection"
ErrQueryCanceled == "failed to query vectordb collection: context canceled"
ErrProvider == "provider error"
ErrProviderCanceled == "provider error: context canceled"
ErrTitle == "error generating session title: provider error"
ErrEmptyTitle == "error generating session title: empty title generated"

\* A comparison with == in place of errors.Is: a wrapped error is not equal.
IsCanceledExact(e) == e = "context canceled"

\* errors.Is(err, context.Canceled): true of the errors that wrap it with %w.
IsCanceled(e) == e \in {ErrQueryCanceled, ErrProviderCanceled}

\* ------------------------------------------------------------------ inputs
Tasks == 1..MaxTurns
Documents == <<1, 2>>
\* The k-th chunk a provider stream produces.
ChunkTexts == <<"c1", "c2", "c3", "c4">>
UserTexts == <<"q1", "q2", "q3", "q4">>

VARIABLES
    viewState,             \* m.viewState
    keymap,                \* m.keymap: [viewState]
    sessions,              \* m.sessions: sequence of [ID, Name, Chats]
    selectedSessionIndex,  \* m.selectedSessionIndex (1-based; 0 before any selection)
    chatCancelFunc,        \* m.chatCancelFunc: 0 is nil, t is the cancel of task t's context
    chatIsThinking,        \* m.chatIsThinking
    taValue,               \* m.chatTextArea.Value()
    taFocus,               \* m.chatTextArea.Focused()
    err,                   \* m.err
    crashed,               \* the event loop panicked (index out of range)
    titles,                \* the title generations started: [sessionIndex, session, state]
    db,                    \* the sessions bucket: per session ID what saveSession last put
    ragChats,              \* rag.chats
    vectordb,              \* per document: does its collection exist
    task,                  \* per turn: the rag.chat goroutine
    ctxCancelled,          \* per turn: its context was cancelled
    fwd,                   \* the message the forwarder goroutine holds for p.Send
    queryIn,               \* SpecRetrieve: what coll.Query returned, [err, results]
    queryOut,              \* SpecRetrieve: what document.retrieve returned for it
    callIn,                \* the argument of a function applied on its own
    callOut,               \* what the function returned for it
    scan,                  \* one rag.scanDocument: its goroutines and channels
    store,                 \* the source documents: m.documents, the bucket, the collections
    embed,                 \* one ollama.embeddingFunc instance and the calls of it
    stream                 \* one chatStream goroutine of a provider and its channel

uiVars == <<viewState, keymap, sessions, selectedSessionIndex, chatCancelFunc, chatIsThinking,
            taValue, taFocus, err, crashed, titles, db>>
ragVars == <<ragChats, vectordb, task, ctxCancelled, fwd>>
retrVars == <<queryIn, queryOut, callIn, callOut, scan, store, embed, stream>>
vars == <<uiVars, ragVars, retrVars>>

\* ------------------------------------------------------------ view state
\* newKeymap: the key bindings are fixed; viewState starts at the sessions
\* view.
newKeymap == [viewState |-> viewStateSessions]

\* A view transition that leaves the key map where it was.
setViewStateModelOnly(state) ==
    /\ viewState' = state
    /\ UNCHANGED keymap

\* mainModel.setViewState: the model and its key map take the state.
setViewState(state) ==
    /\ viewState' = state
    /\ keymap' = [keymap EXCEPT !.viewState = state]

\* --------------------------------------------------------------- helpers
Last(s) == s[Len(s)]

Take(s, n) == IF Len(s) > n THEN SubSeq(s, 1, n) ELSE s

RECURSIVE Flatten(_)
Flatten(ss) == IF ss = <<>> THEN <<>> ELSE Head(ss) \o Flatten(Tail(ss))

Chat(role, content) == [Role |-> role, Content |-> content, Failed |-> FALSE]

\* A query result of the vector index (chromem.Result); chunkIndex is the
\* value strconv.Atoi gives for the metadata entry (0 when it is absent).
Result(id, content, sim, originalID, chunkIndex, filename) ==
    [ID |-> id, Content |-> content, Similarity |-> sim,
     originalID |-> originalID, chunkIndex |-> chunkIndex, filename |-> filename]

\* ---------------------------------------------------------- chunkDocument
\* chromem.Document: the content is a sequence of bytes, the metadata a map.
Document(id, content, metadata) == [ID |-> id, Content |-> content, Metadata |-> metadata]

\* The chunk made in one round of the loop: content[i:end], with the id and
\* the metadata printed from len(chunks).
NewChunk(doc, i, end, chunks) ==
    Document(doc.ID \o "-chunk-" \o ToString(Len(chunks)),
             SubSeq(doc.Content, i + 1, end),
             [filename |-> doc.Metadata.filename, originalID |-> doc.ID,
              chunkIndex |-> ToString(Len(chunks))])

\* The loop steps by chunkSize: the chunks do not overlap.
RECURSIVE ChunkLoopNoOverlap(_, _, _)
ChunkLoopNoOverlap(doc, i, chunks) ==
    IF ~(i < Len(doc.Content)) THEN chunks
    ELSE LET end == IF i + chunkSize > Len(doc.Content) THEN Len(doc.Content)
                    ELSE i + chunkSize
             cs == Append(chunks, NewChunk(doc, i, end, chunks))
         IN IF end = Len(doc.Content) THEN cs
            ELSE ChunkLoopNoOverlap(doc, i + chunkSize, cs)

\* The loop without the break at the end of the content.
RECURSIVE ChunkLoopNoBreak(_, _, _)
ChunkLoopNoBreak(doc, i, chunks) ==
    IF ~(i < Len(doc.Content)) THEN chunks
    ELSE LET end == IF i + chunkSize > Len(doc.Content) THEN Len(doc.Content)
                    ELSE i + chunkSize
         IN ChunkLoopNoBreak(doc, i + chunkSize - chunkOverlap,
                             Append(chunks, NewChunk(doc, i, end, chunks)))

\* for i := 0; i < len(content); i += chunkSize - chunkOverlap
RECURSIVE ChunkLoop(_, _, _)
ChunkLoop(doc, i, chunks) ==
    IF ~(i < Len(doc.Content)) THEN chunks
    ELSE LET end == IF i + chunkSize > Len(doc.Content) THEN Len(doc.Content)
                    ELSE i + chunkSize
             cs == Append(chunks, NewChunk(doc, i, end, chunks))
         IN IF end = Len(doc.Content) THEN cs
            ELSE ChunkLoop(doc, i + chunkSize - chunkOverlap, cs)

\* The early return is taken below chunkSize only.
chunkDocumentStrict(doc) ==
    IF Len(doc.Content) < chunkSize THEN <<doc>> ELSE ChunkLoop(doc, 0, <<>>)

chunkDocument(doc) ==
    IF Len(doc.Content) <= chunkSize THEN <<doc>> ELSE ChunkLoop(doc, 0, <<>>)

\* ------------------------------------------------------ document.retrieve
\* The filter with > in place of >=.
FilterAboveThreshold(docRes) ==
    SelectSeq(docRes, LAMBDA r : r.Similarity > ragSimiliarityThreshold)

\* The filter loop of document.retrieve: keep the results at or above the
\* threshold, in the order of the query.
FilterBySimilarity(docRes) ==
    SelectSeq(docRes, LAMBDA r : r.Similarity >= ragSimiliarityThreshold)

\* document.retrieve: collExists is "GetCollection returned a collection",
\* q is what coll.Query returned, [err, results].
retrieve(collExists, q) ==
    IF ~collExists THEN [res |-> <<>>, err |-> ErrGetCollection]
    ELSE IF q.err # NoErr THEN [res |-> <<>>, err |-> q.err]
    ELSE [res |-> FilterBySimilarity(q.results), err |-> NoErr]

\* ------------------------------------------------------- getContextString
RECURSIVE ContextLoop(_, _, _, _)
ContextLoop(chats, i, contextPairs, context) ==
    IF i < 1 \/ contextPairs <= 0 THEN context
    ELSE IF chats[i].Role = roleUser
         THEN LET c1 == <<"User: ">> \o chats[i].Content \o <<"\n">> \o context
                  paired == i + 1 <= Len(chats) /\ chats[i + 1].Role = roleAssistant
                  c2 == IF paired
                        THEN <<"Assistant: ">> \o chats[i + 1].Content \o <<"\n">> \o c1
                        ELSE c1
              IN ContextLoop(chats, i - 1, IF paired THEN contextPairs - 1 ELSE contextPairs, c2)
         ELSE ContextLoop(chats, i - 1, contextPairs, context)

\* The window is three pairs, not two.
getContextStringThree(chats) ==
    IF Len(chats) = 0 THEN <<>> ELSE ContextLoop(chats, Len(chats), 3, <<>>)

getContextString(chats) ==
    IF Len(chats) = 0 THEN <<>> ELSE ContextLoop(chats, Len(chats), 2, <<>>)

\* searchText of rag.chat, from r.chats after the user message was appended.
SearchText(chats, msg) ==
    LET contextString == getContextString(SubSeq(chats, 1, Len(chats) - 1))
    IN IF contextString # <<>> THEN contextString \o <<"\n">> \o msg ELSE msg

\* ------------------------------------------------------------ mergeChunks
\* slices.SortFunc on records with an integer key: p is inserted into the
\* sorted sequence s of [key, val] pairs after the pairs of equal key.
RECURSIVE InsertSorted(_, _)
InsertSorted(p, s) ==
    IF s = <<>> THEN <<p>>
    ELSE IF p.key < Head(s).key THEN <<p>> \o s
    ELSE <<Head(s)>> \o InsertSorted(p, Tail(s))

RECURSIVE SortPairs(_)
SortPairs(s) ==
    IF s = <<>> THEN <<>>
    ELSE InsertSorted(s[Len(s)], SortPairs(SubSeq(s, 1, Len(s) - 1)))

SortByKey(s, keys) ==
    LET sorted == SortPairs([i \in 1..Len(s) |-> [key |-> keys[i], val |-> s[i]]])
    IN [i \in 1..Len(s) |-> sorted[i].val]

\* slices.SortFunc(ragDocs, cmp.Compare(b.Similarity, a.Similarity))
SortBySimilarityDesc(docs) == SortByKey(docs, [i \in 1..Len(docs) |-> 0 - docs[i].Similarity])

\* The chunks of a group are left in the order of the results.
SortByChunkIndexKeepOrder(chunks) == chunks

\* slices.SortFunc(chunks, cmp.Compare(aCI, bCI))
SortByChunkIndex(chunks) == SortByKey(chunks, [i \in 1..Len(chunks) |-> chunks[i].chunkIndex])

GroupKey(doc) == IF doc.originalID = "" THEN doc.ID ELSE doc.originalID

GroupKeys(docs) == {GroupKey(docs[i]) : i \in 1..Len(docs)}

\* The orders in which the map chunkGroups can be ranged over.
KeyOrders(docs) ==
    LET K == GroupKeys(docs)
        n == Cardinality(K)
    IN {o \in [1..n -> K] : \A i, j \in 1..n : i # j => o[i] # o[j]}

\* The overlapping bytes are not removed.
RECURSIVE MergeContentKeepOverlap(_, _, _)
MergeContentKeepOverlap(chunks, i, mergedContent) ==
    IF i > Len(chunks) THEN mergedContent
    ELSE IF chunks[i - 1].chunkIndex + 1 # chunks[i].chunkIndex
         THEN MergeContentKeepOverlap(chunks, i + 1, mergedContent)
         ELSE MergeContentKeepOverlap(chunks, i + 1, mergedContent \o chunks[i].Content)

RECURSIVE MergeContent(_, _, _)
MergeContent(chunks, i, mergedContent) ==
    IF i > Len(chunks) THEN mergedContent
    ELSE IF chunks[i - 1].chunkIndex + 1 # chunks[i].chunkIndex
         THEN MergeContent(chunks, i + 1, mergedContent)
         ELSE MergeContent(chunks, i + 1,
                  IF Len(chunks[i].Content) > chunkOverlap
                  THEN mergedContent \o SubSeq(chunks[i].Content, chunkOverlap + 1,
                                               Len(chunks[i].Content))
                  ELSE mergedContent)

RECURSIVE SumSimilarity(_)
SumSimilarity(chunks) ==
    IF chunks = <<>> THEN 0 ELSE Head(chunks).Similarity + SumSimilarity(Tail(chunks))

\* The similarity is the average of the chunks' similarities.
MergeGroupAverage(group) ==
    IF Len(group) = 1 THEN group[1]
    ELSE LET chunks == SortByChunkIndex(group)
         IN [chunks[1] EXCEPT !.Content = MergeContent(chunks, 2, chunks[1].Content),
                              !.Similarity = SumSimilarity(chunks) \div Len(chunks)]

\* One group of mergeChunks; totalSim / len(chunks) is 1.0, 10 tenths.
MergeGroup(group) ==
    IF Len(group) = 1 THEN group[1]
    ELSE LET chunks == SortByChunkIndex(group)
         IN [chunks[1] EXCEPT !.Content = MergeContent(chunks, 2, chunks[1].Content),
                              !.Similarity = (10 * Len(chunks)) \div Len(chunks)]

\* mergeChunks, with the map ranged over in the given order of keys.
mergeChunks(docs, order) ==
    [i \in 1..Len(order) |->
        MergeGroup(SelectSeq(docs, LAMBDA d : GroupKey(d) = order[i]))]

\* ------------------------------------------------------- ragSystemPrompt
\* The instructions that close the prompt, one symbol each.
Guidelines ==
    <<"GUIDELINES:",
      "1. Speak naturally as if this knowledge is your own experience and expertise",
      "2. Never use phrases like \"based on documents\", \"according to\", \"from the documents\", or similar references",
      "3. You can expand the conversation with relevant external knowledge",
      "4. Answer directly and confidently, as if you're sharing your own knowledge",
      "5. Be conversational and engaging",
      "IMPORTANT: Only if you directly quoted or used information from the provided documents, add a new line starting with \"Sources: \" followed by the filenames. Do not mention sources at all if you didn't use any specific documents.">>

\* The prompt as a sequence of symbols: the opening line, then per result
\* the separator, the filename in brackets when the metadata has one, and
\* the content; then the guidelines.
ragSystemPrompt(docs) ==
    <<"I am an AI assistant who deeply understands and embodies this knowledge:">>
    \o Flatten([i \in 1..Len(docs) |->
                  <<"---">>
                  \o (IF docs[i].filename # "" THEN <<"[", docs[i].filename, "]">> ELSE <<>>)
                  \o docs[i].Content])
    \o Guidelines

\* The results are merged without the cut to ragNeededCount * 2 before.
PassagesNoCap(ragDocs, order) ==
    Take(SortBySimilarityDesc(mergeChunks(SortBySimilarityDesc(ragDocs), order)),
         ragNeededCount)

\* rag.chat between the retrieval loop and the provider call: the passages
\* handed to ragSystemPrompt.  (slices.SortFunc keeps the order of equal
\* elements up to 12 elements; above that the order among equal
\* similarities is the sort's own, here the stable one.)
Passages(ragDocs, order) ==
    Take(SortBySimilarityDesc(mergeChunks(Take(SortBySimilarityDesc(ragDocs),
                                               ragNeededCount * 2), order)),
         ragNeededCount)

\* ------------------------------------------------------------ the state
\* llmResponseMsg; task is the turn that sent it (not a field of the code).
Msg(t, chatIndex, content, e, done) ==
    [task |-> t, chatIndex |-> chatIndex, content |-> content, isThinking |-> FALSE,
     err |-> e, done |-> done]

NoMsg == Msg(0, 0, <<>>, NoErr, FALSE)

\* The goroutine of one rag.chat call: its arguments (msg, index), its
\* position (pc), its locals (docPos, searchText, ragDocs, cs, newChat) and
\* its history: session is the ID of the session it was submitted in,
\* called is "chatStream was invoked", produced the chunks the provider
\* produced, events the messages it sent on the responses channel.
NoTask ==
    [pc |-> "none", msg |-> <<>>, index |-> 0, session |-> 0, docPos |-> 0,
     searchText |-> <<>>, ragDocs |-> <<>>, cs |-> <<>>, called |-> FALSE,
     newChat |-> <<>>, produced |-> <<>>, events |-> <<>>]

\* The number of turns submitted so far, plus one.
NextTask == 1 + Cardinality({t \in Tasks : task[t].pc # "none"})

\* What coll.Query can return for document d: an error, or the results of
\* the index (one above the threshold and one below it).
HitIDs == <<"hit1", "hit2">>
MissIDs == <<"miss1", "miss2">>
QueryHit(d) == Result(HitIDs[d], <<"h">>, 10 - d, "", 0, "f")
QueryMiss(d) == Result(MissIDs[d], <<"m">>, ragSimiliarityThreshold - d, "", 0, "f")

QueryOutcomes(t, d) ==
    {[err |-> ErrQuery, results |-> <<>>]}
    \cup (IF ctxCancelled[t] THEN {[err |-> ErrQueryCanceled, results |-> <<>>]} ELSE {})
    \cup {[err |-> NoErr, results |-> <<QueryHit(d), QueryMiss(d)>>]}

\* document.retrieve has not run.
NotRun == [res |-> <<>>, err |-> "not run"]

\* No source document was created: m.documents, the documents bucket with
\* its sequence, the collections of the vector index, and m.err.
NoStore == [documents |-> <<>>, bucket |-> {}, sequence |-> 0, collections |-> {},
            deleted |-> {}, err |-> NoErr]

\* No scan was started.
NoScan == [walker |-> "none"]

\* No embedding function was created.
NoEmbed == [calls |-> <<>>]

\* No chatStream was called.
NoStream == [pc |-> "none"]

\* A function applied on its own has not run.
NotCalled == [done |-> FALSE, val |-> <<>>]

\* The function returned v.
Returned(v) == [done |-> TRUE, val |-> v]

RetrInit ==
    /\ queryIn = [err |-> NoErr, results |-> <<>>]
    /\ queryOut = NotRun
    /\ callIn = NotCalled
    /\ callOut = NotCalled
    /\ scan = NoScan
    /\ store = NoStore
    /\ embed = NoEmbed
    /\ stream = NoStream

Init ==
    /\ viewState = viewStateSessions
    /\ keymap = newKeymap
    /\ sessions = <<>>
    /\ selectedSessionIndex = 0
    /\ chatCancelFunc = 0
    /\ chatIsThinking = FALSE
    /\ taValue = <<>>
    /\ taFocus = FALSE
    /\ err = NoErr
    /\ crashed = FALSE
    /\ titles = <<>>
    /\ db = <<>>
    /\ ragChats = <<>>
    /\ vectordb \in [{Documents[i] : i \in 1..Len(Documents)} -> BOOLEAN]
    /\ task = [t \in Tasks |-> NoTask]
    /\ ctxCancelled = [t \in Tasks |-> FALSE]
    /\ fwd = NoMsg
    /\ RetrInit

\* ------------------------------------------------------- the UI: sessions
\* selectSession
selectSession(index) ==
    /\ selectedSessionIndex' = index
    /\ taValue' = <<>>
    /\ taFocus' = TRUE
    /\ setViewState(viewStateChat)

\* What saveSession puts in the bucket for a session.  (A failing db.Update,
\* which only sets m.err, is left out.)
Saved(session) == [Name |-> session.Name, Chats |-> session.Chats]

\* key "n" in the Sessions view: newSession; saveSession gives the session
\* the next sequence number of the bucket as its ID.
KeyNew ==
    /\ ~crashed
    /\ viewState = viewStateSessions
    /\ Len(sessions) < MaxSessions
    /\ Len(db) < MaxCreated
    /\ sessions' = Append(sessions, [ID |-> Len(db) + 1, Name |-> <<>>, Chats |-> <<>>])
    /\ db' = Append(db, Saved([ID |-> Len(db) + 1, Name |-> <<>>, Chats |-> <<>>]))
    /\ selectSession(Len(sessions) + 1)
    /\ UNCHANGED <<chatCancelFunc, chatIsThinking, err, crashed, titles, ragVars, retrVars>>

\* key "enter" in the Sessions view: selectSession(m.sessionList.Index());
\* with an empty list the index is 0 and updateChatSize indexes out of range.
KeyPick ==
    /\ ~crashed
    /\ viewState = viewStateSessions
    /\ IF Len(sessions) = 0
       THEN /\ crashed' = TRUE
            /\ UNCHANGED <<viewState, keymap, sessions, selectedSessionIndex, chatCancelFunc,
                           chatIsThinking, taValue, taFocus, err>>
       ELSE /\ \E index \in 1..Len(sessions) : selectSession(index)
            /\ UNCHANGED <<sessions, chatCancelFunc, chatIsThinking, err, crashed>>
    /\ UNCHANGED <<titles, db, ragVars, retrVars>>

\* What the bucket holds for a session ID after deleteSession.
NoRecord == [deleted |-> TRUE]

\* slices.Delete(m.sessions, index, index+1)
DeleteAt(s, index) == [i \in 1..(Len(s) - 1) |-> IF i < index THEN s[i] ELSE s[i + 1]]

\* key "d" in the Sessions view: deleteSession(m.sessionList.Index()); with
\* an empty list the index is 0 and m.sessions[index] is out of range.
\* (A failing db.Update, which only sets m.err, is left out.)
KeyDelete ==
    /\ ~crashed
    /\ viewState = viewStateSessions
    /\ IF Len(sessions) = 0
       THEN /\ crashed' = TRUE
            /\ UNCHANGED <<sessions, db>>
       ELSE /\ \E index \in 1..Len(sessions) :
                  /\ db' = [db EXCEPT ![sessions[index].ID] = NoRecord]
                  /\ sessions' = DeleteAt(sessions, index)
            /\ UNCHANGED crashed
    /\ UNCHANGED <<viewState, keymap, selectedSessionIndex, chatCancelFunc, chatIsThinking, taValue,
                   taFocus, err, titles, ragVars, retrVars>>

\* ----------------------------------------------------------- the UI: chat
\* a character key in the Chat view: the focused text area takes the text
KeyType ==
    /\ ~crashed
    /\ viewState = viewStateChat
    /\ taFocus
    /\ taValue = <<>>
    /\ NextTask <= MaxTurns
    /\ taValue' = <<UserTexts[NextTask]>>
    /\ UNCHANGED <<viewState, keymap, sessions, selectedSessionIndex, chatCancelFunc,
                   chatIsThinking, taFocus, err, crashed, titles, db, ragVars, retrVars>>

\* key "esc" in the Chat view
KeyEscape ==
    /\ ~crashed
    /\ viewState = viewStateChat
    /\ IF chatCancelFunc # 0
       THEN /\ ctxCancelled' = [ctxCancelled EXCEPT ![chatCancelFunc] = TRUE]
            /\ chatCancelFunc' = 0
            /\ UNCHANGED <<viewState, keymap, err>>
       ELSE /\ err' = NoErr
            /\ setViewState(viewStateSessions)
            /\ UNCHANGED <<chatCancelFunc, ctxCancelled>>
    /\ UNCHANGED <<sessions, selectedSessionIndex, chatIsThinking, taValue, taFocus,
                   crashed, titles, db, ragChats, vectordb, task, fwd, retrVars>>

\* key "ctrl+s" in the Chat view: sendChat (with an empty text area it
\* returns the model unchanged)
sendChat ==
    /\ ~crashed
    /\ viewState = viewStateChat
    /\ taValue # <<>>
    /\ NextTask <= MaxTurns
    /\ LET t == NextTask
           chats == Append(sessions[selectedSessionIndex].Chats, Chat(roleUser, taValue))
       IN /\ err' = NoErr
          /\ sessions' = [sessions EXCEPT ![selectedSessionIndex].Chats = chats]
          /\ chatIsThinking' = TRUE
          /\ taValue' = <<>>
          /\ taFocus' = FALSE
          /\ chatCancelFunc' = t
          /\ task' = [task EXCEPT ![t] = [NoTask EXCEPT !.pc = "begin", !.msg = taValue,
                                                        !.index = Len(chats),
                                                        !.session = sessions[selectedSessionIndex].ID]]
    /\ UNCHANGED <<viewState, keymap, selectedSessionIndex, crashed, titles, db, ragChats, vectordb,
                   ctxCancelled, fwd, retrVars>>

\* handleChatsResponse on the selected session's messages: the new messages,
\* or panic where the code indexes an empty slice.
AppendPending(chats, msg) ==
    IF msg.chatIndex = Len(chats) THEN Append(chats, Chat(roleAssistant, <<>>)) ELSE chats

MarkFailed(chats) ==
    [chats EXCEPT ![Len(chats)].Content = FallbackText, ![Len(chats)].Failed = TRUE]

ResponseChats(chats, msg) ==
    LET cs == AppendPending(chats, msg)
        panic == [panic |-> TRUE, chats |-> chats]
    IN IF msg.err # NoErr
       THEN IF ~IsCanceled(msg.err)
            THEN IF Len(cs) = 0 THEN panic ELSE [panic |-> FALSE, chats |-> MarkFailed(cs)]
            ELSE [panic |-> FALSE, chats |-> cs]
       ELSE IF Len(cs) = 0 THEN panic
            ELSE [panic |-> FALSE,
                  chats |-> [cs EXCEPT ![Len(cs)].Content = @ \o msg.content]]

\* The command handleChatsResponse returns on a done event of an untitled
\* session: it runs rag.genTitle and answers with llmResponseTitleMsg.
TitleCmd(sessionIndex) ==
    [sessionIndex |-> sessionIndex, session |-> sessions[sessionIndex].ID, state |-> "pending",
     reply |-> [content |-> <<>>, err |-> NoErr], named |-> 0]

StartsTitle(msg) == msg.done /\ sessions[selectedSessionIndex].Name = <<>>

\* handleChatsResponse
handleChatsResponse(msg) ==
    LET r == ResponseChats(sessions[selectedSessionIndex].Chats, msg)
        chats == r.chats
    IN IF r.panic
       THEN /\ crashed' = TRUE
            /\ UNCHANGED <<sessions, chatIsThinking, taFocus, err, chatCancelFunc, titles, db>>
       ELSE /\ sessions' = [sessions EXCEPT ![selectedSessionIndex].Chats = chats]
            /\ db' = [db EXCEPT ![sessions[selectedSessionIndex].ID] =
                                   Saved([sessions[selectedSessionIndex] EXCEPT !.Chats = chats])]
            /\ UNCHANGED crashed
            /\ IF msg.err # NoErr
               THEN /\ chatIsThinking' = FALSE
                    /\ taFocus' = TRUE
                    /\ err' = msg.err
                    /\ UNCHANGED <<chatCancelFunc, titles>>
               ELSE /\ chatIsThinking' = IF msg.done THEN FALSE ELSE msg.isThinking
                    /\ chatCancelFunc' = IF msg.done THEN 0 ELSE chatCancelFunc
                    /\ taFocus' = IF msg.done THEN TRUE ELSE taFocus
                    /\ titles' = IF StartsTitle(msg)
                                 THEN Append(titles, TitleCmd(selectedSessionIndex))
                                 ELSE titles
                    /\ UNCHANGED err

\* The event loop receives the forwarder's message: Update routes it by the
\* view state; the Sessions view has no case for it.
HandleLLMResponse ==
    /\ ~crashed
    /\ fwd # NoMsg
    /\ fwd' = NoMsg
    /\ IF viewState = viewStateChat
       THEN handleChatsResponse(fwd)
       ELSE UNCHANGED <<sessions, chatIsThinking, taFocus, err, chatCancelFunc, crashed, titles,
                        db>>
    /\ UNCHANGED <<viewState, keymap, selectedSessionIndex, taValue, ragChats, vectordb, task,
                   ctxCancelled, retrVars>>

\* What the title model's llm.chat can answer: an error, no text, blanks, a
\* title.
TitleReplies ==
    {[content |-> <<>>, err |-> ErrProvider], [content |-> <<>>, err |-> NoErr],
     [content |-> <<" ">>, err |-> NoErr], [content |-> <<"T">>, err |-> NoErr]}

\* An empty title is returned like any other.
genTitleAcceptEmpty(res) ==
    IF res.err # NoErr THEN [title |-> <<>>, err |-> ErrTitle]
    ELSE [title |-> res.content, err |-> NoErr]

\* rag.genTitle and the wrapping of its error in the command, on the reply
\* of llm.chat.
genTitle(res) ==
    IF res.err # NoErr THEN [title |-> <<>>, err |-> ErrTitle]
    ELSE IF res.content = <<>> THEN [title |-> <<>>, err |-> ErrEmptyTitle]
    ELSE [title |-> res.content, err |-> NoErr]

\* A title command ends and the event loop receives its llmResponseTitleMsg
\* (in any view): handleChatsResponseTitle sets m.err, or names the session
\* that is now at the index the command was started with; with no session
\* at that index m.sessions[msg.sessionIndex] is out of range.
HandleTitleResponse ==
    /\ ~crashed
    /\ \E i \in 1..Len(titles) : \E res \in TitleReplies :
          LET r == genTitle(res)
              index == titles[i].sessionIndex
          IN /\ titles[i].state = "pending"
             /\ IF r.err # NoErr
                THEN /\ titles' = [titles EXCEPT ![i].state = "failed", ![i].reply = res]
                     /\ err' = r.err
                     /\ UNCHANGED <<sessions, db, crashed>>
                ELSE IF index > Len(sessions)
                THEN /\ titles' = [titles EXCEPT ![i].state = "panic", ![i].reply = res]
                     /\ crashed' = TRUE
                     /\ UNCHANGED <<sessions, db, err>>
                ELSE /\ titles' = [titles EXCEPT ![i].state = "named", ![i].reply = res,
                                                 ![i].named = sessions[index].ID]
                     /\ sessions' = [sessions EXCEPT ![index].Name = r.title]
                     /\ db' = [db EXCEPT ![sessions[index].ID] =
                                   Saved([sessions[index] EXCEPT !.Name = r.title])]
                     /\ UNCHANGED <<err, crashed>>
    /\ UNCHANGED <<viewState, keymap, selectedSessionIndex, chatCancelFunc, chatIsThinking, taValue,
                   taFocus, ragVars, retrVars>>

\* ------------------------------------------------------------- rag.chat
\* The error event is sent, the return after it is missing.
SendErrNoReturn(t, e) ==
    /\ fwd = NoMsg
    /\ fwd' = Msg(t, task[t].index, <<>>, e, FALSE)
    /\ task' = [task EXCEPT ![t].events = Append(@, Msg(t, task[t].index, <<>>, e, FALSE))]

\* The task sends an error event and returns.
SendErr(t, e) ==
    /\ fwd = NoMsg
    /\ fwd' = Msg(t, task[t].index, <<>>, e, FALSE)
    /\ task' = [task EXCEPT ![t].pc = "returned",
                            ![t].events = Append(@, Msg(t, task[t].index, <<>>, e, FALSE))]

\* The goroutine starts: the user message goes to r.chats, the search text
\* is built from the earlier messages.
ChatBegin(t) ==
    /\ task[t].pc = "begin"
    /\ LET chats == Append(ragChats, Chat(roleUser, task[t].msg))
       IN /\ ragChats' = chats
          /\ task' = [task EXCEPT ![t].pc = "retrieve", ![t].docPos = 1,
                                  ![t].searchText = SearchText(chats, task[t].msg)]
    /\ UNCHANGED <<uiVars, vectordb, ctxCancelled, fwd, retrVars>>

\* One round of the retrieval loop: doc.retrieve for the next document.
Retrieve(t) ==
    /\ task[t].pc = "retrieve"
    /\ task[t].docPos <= Len(Documents)
    /\ LET d == Documents[task[t].docPos]
       IN \E q \in QueryOutcomes(t, d) :
            LET r == retrieve(vectordb[d], q)
            IN IF r.err # NoErr
               THEN SendErr(t, r.err)
               ELSE /\ task' = [task EXCEPT ![t].ragDocs = @ \o r.res,
                                            ![t].docPos = @ + 1]
                    /\ UNCHANGED fwd
    /\ UNCHANGED <<uiVars, ragChats, vectordb, ctxCancelled, retrVars>>

\* After the loop: the passages, the system prompt, the copy of r.chats with
\* the system message inserted at position 0, and the call of chatStream.
CallChatStream(t) ==
    /\ task[t].pc = "retrieve"
    /\ task[t].docPos > Len(Documents)
    /\ \E order \in KeyOrders(Take(SortBySimilarityDesc(task[t].ragDocs), ragNeededCount * 2)) :
         LET ragPrompt == ragSystemPrompt(Passages(task[t].ragDocs, order))
         IN task' = [task EXCEPT ![t].pc = "stream", ![t].called = TRUE,
                                 ![t].cs = <<Chat(roleSystem, ragPrompt)>> \o ragChats]
    /\ UNCHANGED <<uiVars, ragChats, vectordb, ctxCancelled, fwd, retrVars>>

\* The event carries the content accumulated so far, not the chunk.
TokenEventAccumulated(t, c) == Msg(t, task[t].index, task[t].newChat \o c, NoErr, FALSE)

\* The event rag.chat sends for the chunk c of the provider.
TokenEvent(t, c) == Msg(t, task[t].index, c, NoErr, FALSE)

\* The provider produces a chunk; rag.chat sends it as an event and adds it
\* to newChat.
StreamToken(t) ==
    /\ task[t].pc = "stream"
    /\ Len(task[t].produced) < MaxChunks
    /\ fwd = NoMsg
    /\ LET c == <<ChunkTexts[Len(task[t].produced) + 1]>>
           m == TokenEvent(t, c)
       IN   /\ fwd' = m
            /\ task' = [task EXCEPT ![t].produced = Append(@, c),
                                    ![t].events = Append(@, m),
                                    ![t].newChat = @ \o c]
    /\ UNCHANGED <<uiVars, ragChats, vectordb, ctxCancelled, retrVars>>

\* The provider sends an error value: a failure of its own at any time, or,
\* once the context is cancelled, an error that wraps context.Canceled.
StreamError(t) ==
    /\ task[t].pc = "stream"
    /\ \E e \in {ErrProvider} \cup (IF ctxCancelled[t] THEN {ErrProviderCanceled} ELSE {}) :
         SendErr(t, e)
    /\ UNCHANGED <<uiVars, ragChats, vectordb, ctxCancelled, retrVars>>

\* The provider closes its channel (end of the stream, or a return on a
\* cancelled context): the loop ends and newChat goes to r.chats.
StreamClose(t) ==
    /\ task[t].pc = "stream"
    /\ ragChats' = Append(ragChats, Chat(roleAssistant, task[t].newChat))
    /\ task' = [task EXCEPT ![t].pc = "closed"]
    /\ UNCHANGED <<uiVars, vectordb, ctxCancelled, fwd, retrVars>>

\* The done event.
SendDone(t) ==
    /\ task[t].pc = "closed"
    /\ fwd = NoMsg
    /\ fwd' = Msg(t, 0, <<>>, NoErr, TRUE)
    /\ task' = [task EXCEPT ![t].pc = "returned",
                            ![t].events = Append(@, Msg(t, 0, <<>>, NoErr, TRUE))]
    /\ UNCHANGED <<uiVars, ragChats, vectordb, ctxCancelled, retrVars>>

Next ==
    \/ KeyNew
    \/ KeyPick
    \/ KeyDelete
    \/ KeyType
    \/ KeyEscape
    \/ sendChat
    \/ HandleLLMResponse
    \/ HandleTitleResponse
    \/ \E t \in Tasks : ChatBegin(t)
    \/ \E t \in Tasks : Retrieve(t)
    \/ \E t \in Tasks : CallChatStream(t)
    \/ \E t \in Tasks : StreamToken(t)
    \/ \E t \in Tasks : StreamError(t)
    \/ \E t \in Tasks : StreamClose(t)
    \/ \E t \in Tasks : SendDone(t)

Spec == Init /\ [][Next]_vars

\* ------------------------------------------- document.retrieve on its own
\* SpecRetrieve applies document.retrieve of document 1 to every answer of
\* the index within the bounds.
SimValues == {4, 5, 6, 9}
ResultIDs == <<"r1", "r2", "r3", "r4", "r5">>

ResultSeqs ==
    UNION {[1..n -> SimValues] : n \in 0..MaxResults}

QueryAnswers ==
    {[err |-> ErrQuery, results |-> <<>>]}
    \cup {[err |-> NoErr,
           results |-> [i \in 1..Len(sims) |-> Result(ResultIDs[i], <<"h">>, sims[i], "", 0, "f")]] :
          sims \in ResultSeqs}

InitRetrieve ==
    /\ viewState = viewStateSessions
    /\ keymap = newKeymap
    /\ sessions = <<>>
    /\ selectedSessionIndex = 0
    /\ chatCancelFunc = 0
    /\ chatIsThinking = FALSE
    /\ taValue = <<>>
    /\ taFocus = FALSE
    /\ err = NoErr
    /\ crashed = FALSE
    /\ titles = <<>>
    /\ db = <<>>
    /\ ragChats = <<>>
    /\ vectordb \in [{Documents[i] : i \in 1..Len(Documents)} -> BOOLEAN]
    /\ task = [t \in Tasks |-> NoTask]
    /\ ctxCancelled = [t \in Tasks |-> FALSE]
    /\ fwd = NoMsg
    /\ queryIn \in QueryAnswers
    /\ queryOut = NotRun
    /\ callIn = NotCalled
    /\ callOut = NotCalled
    /\ scan = NoScan
    /\ store = NoStore
    /\ embed = NoEmbed
    /\ stream = NoStream

DoRetrieve ==
    /\ queryOut = NotRun
    /\ queryOut' = retrieve(vectordb[Documents[1]], queryIn)
    /\ UNCHANGED <<uiVars, ragVars, queryIn, callIn, callOut, scan, store, embed, stream>>

NextRetrieve == DoRetrieve

SpecRetrieve == InitRetrieve /\ [][NextRetrieve]_vars

\* The program at rest, for the specifications that apply one function.
Idle ==
    /\ viewState = viewStateSessions
    /\ keymap = newKeymap
    /\ sessions = <<>>
    /\ selectedSessionIndex = 0
    /\ chatCancelFunc = 0
    /\ chatIsThinking = FALSE
    /\ taValue = <<>>
    /\ taFocus = FALSE
    /\ err = NoErr
    /\ crashed = FALSE
    /\ titles = <<>>
    /\ db = <<>>
    /\ ragChats = <<>>
    /\ vectordb = [d \in {Documents[i] : i \in 1..Len(Documents)} |-> TRUE]
    /\ task = [t \in Tasks |-> NoTask]
    /\ ctxCancelled = [t \in Tasks |-> FALSE]
    /\ fwd = NoMsg
    /\ queryIn = [err |-> NoErr, results |-> <<>>]
    /\ queryOut = NotRun

\* ------------------------------------------- the search text on its own
\* SpecContext applies the first lines of rag.chat to every r.chats within
\* the bound.  r.chats only grows by a user message at the start of a turn
\* and an assistant message at the end of one that streamed, so in every
\* prefix the assistant messages are no more than the user messages.
MsgTexts == <<"m1", "m2", "m3", "m4", "m5", "m6", "m7", "m8", "m9">>

RoleSeqs ==
    {r \in UNION {[1..n -> {roleUser, roleAssistant}] : n \in 0..MaxHistory} :
        \A k \in 1..Len(r) :
            Cardinality({i \in 1..k : r[i] = roleAssistant})
                <= Cardinality({i \in 1..k : r[i] = roleUser})}

Histories == {[i \in 1..Len(r) |-> Chat(r[i], <<MsgTexts[i]>>)] : r \in RoleSeqs}

InitContext ==
    /\ Idle
    /\ callIn \in {[chats |-> h, msg |-> <<"new">>] : h \in Histories}
    /\ callOut = NotCalled
    /\ scan = NoScan
    /\ store = NoStore
    /\ embed = NoEmbed
    /\ stream = NoStream

DoSearchText ==
    /\ ~callOut.done
    /\ callOut' = Returned(SearchText(Append(callIn.chats, Chat(roleUser, callIn.msg)), callIn.msg))
    /\ UNCHANGED <<uiVars, ragVars, queryIn, queryOut, callIn, scan, store, embed, stream>>

NextContext == DoSearchText

SpecContext == InitContext /\ [][NextContext]_vars

\* ------------------------------------------------ chunkDocument on its own
\* SpecChunk applies chunkDocument to a document of every content length up
\* to the bound; the k-th byte of the content is k, so every byte is told
\* from every other.
ContentOfLen(n) == [k \in 1..n |-> k]

InitChunk ==
    /\ Idle
    /\ callIn \in {Document("doc", ContentOfLen(n), [filename |-> "f"]) : n \in 0..MaxContentLen}
    /\ callOut = NotCalled
    /\ scan = NoScan
    /\ store = NoStore
    /\ embed = NoEmbed
    /\ stream = NoStream

DoChunkDocument ==
    /\ ~callOut.done
    /\ callOut' = Returned(chunkDocument(callIn))
    /\ UNCHANGED <<uiVars, ragVars, queryIn, queryOut, callIn, scan, store, embed, stream>>

NextChunk == DoChunkDocument

SpecChunk == InitChunk /\ [][NextChunk]_vars

\* -------------------------------------------------- mergeChunks on its own
\* SpecMerge applies mergeChunks to every list of results within the bound:
\* a result is not a chunk (no originalID, chunkIndex read as 0) or a chunk
\* 0..3 of the document "A"; its content is shorter or longer than the
\* overlap and its bytes are its own.
ContentAt(p, n) == [k \in 1..n |-> 100 * p + k]

MergeResultsAt(p) ==
    {Result(ResultIDs[p], ContentAt(p, n), sim, "", 0, "f") :
        n \in {3, chunkOverlap + 2}, sim \in {5, 8}}
    \cup {Result(ResultIDs[p], ContentAt(p, n), sim, "A", ci, "f") :
        n \in {3, chunkOverlap + 2}, sim \in {5, 8}, ci \in 0..3}

RECURSIVE MergeInputs(_)
MergeInputs(n) ==
    IF n = 0 THEN {<<>>}
    ELSE {Append(docs, r) : docs \in MergeInputs(n - 1), r \in MergeResultsAt(n)}

InitMerge ==
    /\ Idle
    /\ callIn \in UNION {MergeInputs(n) : n \in 0..MaxMergeDocs}
    /\ callOut = NotCalled
    /\ scan = NoScan
    /\ store = NoStore
    /\ embed = NoEmbed
    /\ stream = NoStream

DoMergeChunks ==
    /\ ~callOut.done
    /\ \E order \in KeyOrders(callIn) : callOut' = Returned(mergeChunks(callIn, order))
    /\ UNCHANGED <<uiVars, ragVars, queryIn, queryOut, callIn, scan, store, embed, stream>>

NextMerge == DoMergeChunks

SpecMerge == InitMerge /\ [][NextMerge]_vars

\* ----------------------------------- the passages of a turn on their own
\* SpecPassages applies the lines of rag.chat between the retrieval loop
\* and ragSystemPrompt to lists of up to MaxRagDocs results, all at or
\* above the threshold as document.retrieve leaves them.  The similarities
\* and the grouping follow a few patterns over the position p of a result:
\* the first 20 high and the rest low, the other way round, all equal,
\* cycling; no chunks, chunk pairs, the first and the last result two
\* chunks of one document, all chunks of one document.
DocIDs == <<"d1", "d2", "d3", "d4", "d5", "d6", "d7", "d8", "d9", "d10", "d11", "d12",
            "d13", "d14", "d15", "d16", "d17", "d18", "d19", "d20", "d21", "d22", "d23",
            "d24", "d25", "d26">>
OriginalIDs == <<"o1", "o2", "o3", "o4", "o5", "o6", "o7", "o8", "o9", "o10", "o11",
                 "o12", "o13">>

SimPatterns == {"step", "rev", "flat", "cycle"}
GroupPatterns == {"single", "pairs", "ends", "one"}

PatternSimilarity(pat, p, n) ==
    CASE pat = "step" -> IF p <= ragNeededCount * 2 THEN 9 ELSE 6
      [] pat = "rev" -> IF p <= n - ragNeededCount * 2 THEN 6 ELSE 9
      [] pat = "flat" -> 7
      [] pat = "cycle" -> ragSimiliarityThreshold + (p % 6)

PatternResult(sp, gp, p, n) ==
    LET sim == PatternSimilarity(sp, p, n)
        content == ContentAt(p, chunkOverlap + 2)
    IN CASE gp = "single" -> Result(DocIDs[p], content, sim, "", 0, "f")
         [] gp = "pairs" -> Result(DocIDs[p], content, sim, OriginalIDs[(p + 1) \div 2],
                                   (p - 1) % 2, "f")
         [] gp = "ends" -> IF p = 1 /\ n >= 2 THEN Result(DocIDs[p], content, sim, "o1", 1, "f")
                           ELSE IF p = n /\ n >= 2
                                THEN Result(DocIDs[p], content, sim, "o1", 0, "f")
                                ELSE Result(DocIDs[p], content, sim, "", 0, "f")
         [] gp = "one" -> Result(DocIDs[p], content, sim, "o1", p - 1, "f")

PassageInputs ==
    {[p \in 1..n |-> PatternResult(sp, gp, p, n)] :
        n \in 0..MaxRagDocs, sp \in SimPatterns, gp \in GroupPatterns}

\* The group keys in the order they first appear.
RECURSIVE FirstKeys(_, _)
FirstKeys(docs, seen) ==
    IF docs = <<>> THEN seen
    ELSE FirstKeys(Tail(docs),
                   IF \E i \in 1..Len(seen) : seen[i] = GroupKey(Head(docs))
                   THEN seen ELSE Append(seen, GroupKey(Head(docs))))

Reverse(s) == [i \in 1..Len(s) |-> s[Len(s) + 1 - i]]

Rotate(s, k) == [i \in 1..Len(s) |-> s[((i + k - 1) % Len(s)) + 1]]

\* Orders in which the map chunkGroups is ranged over: every rotation of
\* the order of first appearance and of its reverse (all orders there are
\* up to three keys, a part of them above).
RotatedOrders(docs) ==
    LET keys == FirstKeys(docs, <<>>)
    IN IF keys = <<>> THEN {<<>>}
       ELSE {Rotate(keys, k) : k \in 0..(Len(keys) - 1)}
            \cup {Rotate(Reverse(keys), k) : k \in 0..(Len(keys) - 1)}

InitPassages ==
    /\ Idle
    /\ callIn \in PassageInputs
    /\ callOut = NotCalled
    /\ scan = NoScan
    /\ store = NoStore
    /\ embed = NoEmbed
    /\ stream = NoStream

DoPassages ==
    /\ ~callOut.done
    /\ \E order \in RotatedOrders(Take(SortBySimilarityDesc(callIn), ragNeededCount * 2)) :
          callOut' = Returned(Passages(callIn, order))
    /\ UNCHANGED <<uiVars, ragVars, queryIn, queryOut, callIn, scan, store, embed, stream>>

NextPassages == DoPassages

SpecPassages == InitPassages /\ [][NextPassages]_vars

\* ------------------------------------------------------ rag.scanDocument
\* SpecScan is one scanDocument: the goroutine scanFiles (the walk, then
\* wg.Wait and close), one producer goroutine per file, the goroutine
\* storeDocument (the consumer), the semaphore, the wait group, the
\* unbuffered channel documents, the context, and the messages sent on the
\* progress channel, which the forwarder of main always receives.
Files == 1..MaxFiles
FileKinds == {"text", "empty", "unreadable"}

ErrWalk == "walk error"
ErrCreateCollection == "error creating collection"
ErrAddDocuments == "error adding documents to collection"
ErrAddCanceled == "error adding documents to collection: context canceled"

\* documentScanLogMsg
ScanLog(e, done, scannedFileCount) ==
    [err |-> e, done |-> done, scannedFileCount |-> scannedFileCount]

InitScan ==
    /\ Idle
    /\ callIn = NotCalled
    /\ callOut = NotCalled
    /\ store = NoStore
    /\ embed = NoEmbed
    /\ stream = NoStream
    /\ \E kinds \in [Files -> FileKinds] :
          scan = [walker |-> "start", walkPos |-> 1, kinds |-> kinds,
                  prod |-> [f \in Files |-> "none"], sem |-> 0, wg |-> 0,
                  closed |-> FALSE, cons |-> "recv", item |-> 0,
                  originalFileCount |-> 0, handed |-> 0, cancelled |-> FALSE,
                  progress |-> <<>>]

ScanUnchanged == UNCHANGED <<uiVars, ragVars, queryIn, queryOut, callIn, callOut, store, embed, stream>>

Progress(m) == Append(scan.progress, m)

\* scanFiles: the first progress message
ScanStart ==
    /\ scan.walker = "start"
    /\ scan' = [scan EXCEPT !.walker = "walk", !.progress = Progress(ScanLog(NoErr, FALSE, 0))]
    /\ ScanUnchanged

\* filepath.Walk visits a file: wg.Add(1) and go func(p)
WalkFile ==
    /\ scan.walker = "walk"
    /\ scan.walkPos <= MaxFiles
    /\ scan' = [scan EXCEPT !.wg = @ + 1, !.prod[scan.walkPos] = "acquire",
                             !.walkPos = @ + 1]
    /\ ScanUnchanged

\* filepath.Walk hands an error to the callback: the walk ends with it,
\* scanFiles reports it and returns.
WalkFail ==
    /\ scan.walker = "walk"
    /\ scan.walkPos <= MaxFiles
    /\ scan' = [scan EXCEPT !.walker = "failed",
                             !.progress = Progress(ScanLog(ErrWalk, FALSE, 0))]
    /\ ScanUnchanged

\* filepath.Walk returns nil: scanFiles goes on to wg.Wait()
WalkEnd ==
    /\ scan.walker = "walk"
    /\ scan.walkPos > MaxFiles
    /\ scan' = [scan EXCEPT !.walker = "wait"]
    /\ ScanUnchanged

\* wg.Wait() returns; close(documents)
WaitDone ==
    /\ scan.walker = "wait"
    /\ scan.wg = 0
    /\ scan' = [scan EXCEPT !.walker = "closed", !.closed = TRUE]
    /\ ScanUnchanged

\* The semaphore takes every send.
SemFreeAlways == TRUE

\* semaphore <- struct{}{} can proceed: the buffer has room.
SemFree == scan.sem < NumCPU

Acquire(f) ==
    /\ scan.prod[f] = "acquire"
    /\ SemFree
    /\ scan' = [scan EXCEPT !.prod[f] = "read", !.sem = @ + 1]
    /\ ScanUnchanged

\* An empty file is sent like any other.
ProducesDocumentUnlessUnreadable(kind) == kind # "unreadable"

\* os.ReadFile succeeded and the file is not empty.
ProducesDocument(kind) == kind = "text"

\* os.ReadFile and the two early returns
ReadFile(f) ==
    /\ scan.prod[f] = "read"
    /\ scan' = [scan EXCEPT !.prod[f] = IF ProducesDocument(scan.kinds[f])
                                         THEN "send" ELSE "release"]
    /\ ScanUnchanged

\* documents <- chromem.Document{...} meets the receive of the consumer's
\* range loop.
Handover(f) ==
    /\ scan.prod[f] = "send"
    /\ scan.cons = "recv"
    /\ scan' = [scan EXCEPT !.prod[f] = "release", !.handed = @ + 1,
                             !.cons = "check", !.item = f]
    /\ ScanUnchanged

\* The deferred function: <-semaphore and wg.Done()
Release(f) ==
    /\ scan.prod[f] = "release"
    /\ scan' = [scan EXCEPT !.prod[f] = "exit", !.sem = @ - 1, !.wg = @ - 1]
    /\ ScanUnchanged

\* storeDocument, the body of the range loop
ConsumerCheck ==
    /\ scan.cons = "check"
    /\ IF scan.cancelled
       THEN scan' = [scan EXCEPT !.cons = "returned",
                                 !.progress = Progress(ScanLog(ErrAddCanceled, FALSE, 0))]
       ELSE scan' = [scan EXCEPT !.cons = "recv", !.originalFileCount = @ + 1,
                                 !.progress = Progress(ScanLog(NoErr, FALSE, 0))]
    /\ ScanUnchanged

\* The range loop ends on the closed channel; the summary message
ConsumerSummary ==
    /\ scan.cons = "recv"
    /\ scan.closed
    /\ scan' = [scan EXCEPT !.cons = "create", !.progress = Progress(ScanLog(NoErr, FALSE, 0))]
    /\ ScanUnchanged

\* r.vectordb.CreateCollection
ConsumerCreate ==
    /\ scan.cons = "create"
    /\ \/ scan' = [scan EXCEPT !.cons = "add"]
       \/ scan' = [scan EXCEPT !.cons = "returned",
                               !.progress = Progress(ScanLog(ErrCreateCollection, FALSE, 0))]
    /\ ScanUnchanged

\* coll.AddDocuments(ctx, ...) and the done message
ConsumerAdd ==
    /\ scan.cons = "add"
    /\ \E e \in {NoErr, ErrAddDocuments} \cup (IF scan.cancelled THEN {ErrAddCanceled} ELSE {}) :
          scan' = [scan EXCEPT !.cons = "returned",
                               !.progress = Progress(IF e = NoErr
                                                     THEN ScanLog(NoErr, TRUE, scan.originalFileCount)
                                                     ELSE ScanLog(e, FALSE, 0))]
    /\ ScanUnchanged

\* key "esc" in the scan view: m.documentScanCancelFunc()
CancelScan ==
    /\ ~scan.cancelled
    /\ scan' = [scan EXCEPT !.cancelled = TRUE]
    /\ ScanUnchanged

NextScan ==
    \/ ScanStart
    \/ WalkFile
    \/ WalkFail
    \/ WalkEnd
    \/ WaitDone
    \/ \E f \in Files : Acquire(f)
    \/ \E f \in Files : ReadFile(f)
    \/ \E f \in Files : Handover(f)
    \/ \E f \in Files : Release(f)
    \/ ConsumerCheck
    \/ ConsumerSummary
    \/ ConsumerCreate
    \/ ConsumerAdd
    \/ CancelScan

SpecScan == InitScan /\ [][NextScan]_vars

\* Every goroutine of the scan that can take a step takes one.
ScanFairness ==
    /\ WF_vars(ScanStart) /\ WF_vars(WalkFile) /\ WF_vars(WalkEnd) /\ WF_vars(WaitDone)
    /\ \A f \in Files : WF_vars(Acquire(f)) /\ WF_vars(ReadFile(f))
                           /\ WF_vars(Handover(f)) /\ WF_vars(Release(f))
    /\ WF_vars(ConsumerCheck) /\ WF_vars(ConsumerSummary)
    /\ WF_vars(ConsumerCreate) /\ WF_vars(ConsumerAdd)

SpecScanFair == SpecScan /\ ScanFairness

\* ------------------------------------------------- the source documents
\* SpecDocuments: source documents are created, scanned and deleted.
ErrDeleteDocument == "error deleting document"

\* document.vectorDBCollectionName
vectorDBCollectionName(d) == "doc-" \o ToString(d.ID)

InitDocuments ==
    /\ Idle
    /\ callIn = NotCalled
    /\ callOut = NotCalled
    /\ scan = NoScan
    /\ store = NoStore
    /\ embed = NoEmbed
    /\ stream = NoStream

StoreUnchanged == UNCHANGED <<uiVars, ragVars, queryIn, queryOut, callIn, callOut, scan, embed, stream>>

\* The document form is completed: saveDocument gives the new document the
\* next sequence number of the bucket as its ID.
AddDocument ==
    /\ store.sequence < MaxDocuments
    /\ LET id == store.sequence + 1
       IN store' = [store EXCEPT !.sequence = id, !.bucket = @ \cup {id},
                                 !.documents = Append(@, [ID |-> id]), !.err = NoErr]
    /\ StoreUnchanged

\* A scan of the document ends well: storeDocument has created the
\* collection of the document's name in the vector index.
ScanDocumentDone(index) ==
    /\ index \in 1..Len(store.documents)
    /\ store' = [store EXCEPT
                     !.collections = @ \cup {vectorDBCollectionName(store.documents[index])}]
    /\ StoreUnchanged

\* The collections of the vector index after mainModel.deleteDocument.
DeletedCollections(index) == store.collections

\* key "ctrl+d" in the Documents view: mainModel.deleteDocument
DeleteDocument(index) ==
    /\ index \in 1..Len(store.documents)
    /\ \/ store' = [store EXCEPT !.err = ErrDeleteDocument]
       \/ LET id == store.documents[index].ID
          IN store' = [store EXCEPT
                          !.bucket = @ \ {id},
                          !.documents = SubSeq(@, 1, index - 1)
                                          \o SubSeq(@, index + 1, Len(@)),
                          !.collections = DeletedCollections(index),
                          !.deleted = @ \cup {id}]
    /\ StoreUnchanged

NextDocuments ==
    \/ AddDocument
    \/ \E index \in 1..MaxDocuments : ScanDocumentDone(index)
    \/ \E index \in 1..MaxDocuments : DeleteDocument(index)

SpecDocuments == InitDocuments /\ [][NextDocuments]_vars

\* ------------------------------------------------- ollama.embeddingFunc
\* A vector is a sequence of components counted in fifths: One is the
\* length 1.0. The tolerance of isNormalized, 1e-6, is below that
\* resolution, so "within the tolerance of 1" is "exactly One".
One == 5

RECURSIVE SumSq(_)
SumSq(v) == IF Len(v) = 0 THEN 0 ELSE Last(v) * Last(v) + SumSq(Take(v, Len(v) - 1))

\* math.Sqrt on the sums of squares of the vectors below, whose lengths are whole.
Sqrt(n) == CHOOSE r \in 0..n : r * r <= n /\ (r + 1) * (r + 1) > n

isNormalized(v) == SumSq(v) = One * One

normalizeVector(v) == [i \in 1..Len(v) |-> (v[i] * One) \div Sqrt(SumSq(v))]

\* The first embedding of a response of /api/embed: of length 1.0 or of
\* length 2.0. The zero vector, which normalizeVector divides by zero, is
\* left out.
Embeddings == {<<3, 4>>, <<5, 0>>, <<6, 8>>, <<0, 10>>}

ErrEmbed == "error response from the embedding API"

\* checkedNormalized, the sync.Once with the number of times its function
\* ran, and the calls of the returned function.
NewEmbed == [checkedNormalized |-> FALSE, onceDone |-> FALSE, checks |-> 0, calls |-> <<>>]

InitEmbed ==
    /\ Idle
    /\ callIn = NotCalled
    /\ callOut = NotCalled
    /\ scan = NoScan
    /\ store = NoStore
    /\ stream = NoStream
    /\ embed = NewEmbed

EmbedUnchanged ==
    UNCHANGED <<uiVars, ragVars, queryIn, queryOut, callIn, callOut, scan, store, stream>>

SetCall(c, call) == [embed EXCEPT !.calls[c] = call]

\* A goroutine calls the embedding function: the request is sent.
EmbedCall ==
    /\ Len(embed.calls) < MaxCalls
    /\ embed' = [embed EXCEPT !.calls = Append(@, [pc |-> "request", resp |-> <<>>,
                                                    v |-> <<>>, err |-> NoErr])]
    /\ EmbedUnchanged

\* The request fails, the status is not 200, or the response carries no
\* embedding: the call returns nil and the error.
EmbedFail(c) ==
    /\ embed.calls[c].pc = "request"
    /\ embed' = SetCall(c, [embed.calls[c] EXCEPT !.pc = "returned", !.err = ErrEmbed])
    /\ EmbedUnchanged

\* The response is decoded: v is its first embedding.
EmbedRespond(c) ==
    /\ embed.calls[c].pc = "request"
    /\ \E v \in Embeddings :
          embed' = SetCall(c, [embed.calls[c] EXCEPT !.pc = "once", !.resp = v, !.v = v])
    /\ EmbedUnchanged

\* checkNormalized.Do: the first call to get here runs the function, which
\* sets checkedNormalized from its own v; calls that arrive meanwhile wait
\* for it, and every later call skips it.
OnceDo(c) ==
    /\ embed.calls[c].pc = "once"
    /\ IF embed.onceDone
         THEN embed' = [embed EXCEPT !.calls[c].pc = "checked"]
         ELSE embed' = [embed EXCEPT !.onceDone = TRUE,
                                     !.checks = @ + 1,
                                     !.checkedNormalized = isNormalized(embed.calls[c].v),
                                     !.calls[c].pc = "checked"]
    /\ EmbedUnchanged

\* if !checkedNormalized { v = normalizeVector(v) }; return v, nil
EmbedReturn(c) ==
    /\ embed.calls[c].pc = "checked"
    /\ embed' = [embed EXCEPT !.calls[c].pc = "returned",
                              !.calls[c].v = IF embed.checkedNormalized
                                               THEN embed.calls[c].v
                                               ELSE normalizeVector(embed.calls[c].v)]
    /\ EmbedUnchanged

NextEmbed ==
    \/ EmbedCall
    \/ \E c \in 1..Len(embed.calls) : EmbedFail(c)
    \/ \E c \in 1..Len(embed.calls) : EmbedRespond(c)
    \/ \E c \in 1..Len(embed.calls) : OnceDo(c)
    \/ \E c \in 1..Len(embed.calls) : EmbedReturn(c)

SpecEmbed == InitEmbed /\ [][NextEmbed]_vars

\* ------------------------------------------------- the providers' chatStream
Providers == {"ollama", "anthropic", "openai"}

\* context.Canceled itself, and io.EOF.
ErrCanceled == "context canceled"
ErrEOF == "EOF"

\* An llmResponse; NoResponse is no value at all.
Content(c) == [content |-> c, err |-> NoErr]
Failure(e) == [content |-> "", err |-> e]
NoResponse == [content |-> "", err |-> "no response"]

\* The goroutine goes on at next, after sending a value if it has one.
Step(send, next) == [send |-> send, next |-> next]

\* What the http client returns for a request: a response, an error, or,
\* once the context is cancelled, an error that wraps context.Canceled.
DoErrors(s) == {ErrProvider} \cup (IF s.cancelled THEN {ErrProviderCanceled} ELSE {})

\* What reading the body returns besides data: the end of the body, an
\* error, or, once the context is cancelled, context.Canceled.
ReadErrors(s) == {ErrEOF, ErrProvider} \cup (IF s.cancelled THEN {ErrCanceled} ELSE {})

\* fmt.Errorf("...: %w", err)
Wrapped(e) == IF e = ErrCanceled THEN ErrProviderCanceled ELSE e

\* errors.Is(err, context.Canceled)
ErrorsIsCanceled(e) == e = ErrCanceled \/ IsCanceled(e)

\* The next chunk of the stream, while the provider has one.
Chunks(s, next) ==
    IF s.chunks < MaxStreamChunks THEN {Step(Content(ChunkTexts[s.chunks + 1]), next)} ELSE {}

ollamaChatStream(s) ==
    CASE s.pc = "prepare" ->
           {Step(NoResponse, "do"), Step(Failure(ErrProvider), "return")}
      [] s.pc = "do" ->
           {Step(NoResponse, "status")}
           \cup {IF ErrorsIsCanceled(e) THEN Step(NoResponse, "return")
                                        ELSE Step(Failure(Wrapped(e)), "return") :
                    e \in DoErrors(s)}
      [] s.pc = "status" ->
           {Step(NoResponse, "recv"), Step(Failure(ErrProvider), "return")}
      [] s.pc = "recv" ->
           {IF e = ErrEOF \/ ErrorsIsCanceled(e)
              THEN Step(NoResponse, "return")
              ELSE Step(Failure(Wrapped(e)), "return") : e \in ReadErrors(s)}
           \cup Chunks(s, "recv") \cup Chunks(s, "return")

anthropicChatStream(s) ==
    CASE s.pc = "prepare" ->
           {Step(NoResponse, "do"), Step(Failure(ErrProvider), "return")}
      [] s.pc = "do" ->
           {Step(NoResponse, "status")}
           \cup {IF ErrorsIsCanceled(e) THEN Step(NoResponse, "return")
                                        ELSE Step(Failure(Wrapped(e)), "return") :
                    e \in DoErrors(s)}
      [] s.pc = "status" ->
           {Step(NoResponse, "recv"), Step(Failure(ErrProvider), "return")}
      [] s.pc = "recv" ->
           \* a line that does not decode; "[DONE]" or message_stop; the
           \* scanner stops, with or without an error
           {Step(Failure(ErrProvider), "return"), Step(NoResponse, "return")}
           \cup {IF e = ErrEOF \/ ErrorsIsCanceled(e)
                   THEN Step(NoResponse, "return")
                   ELSE Step(Failure(Wrapped(e)), "return") : e \in ReadErrors(s)}
           \cup Chunks(s, "recv")

\* o.client.CreateChatCompletionStream sends the request; stream.Recv
\* reads the body and returns the error of the read as it is.
openaiChatStream(s) ==
    CASE s.pc = "prepare" ->
           {Step(NoResponse, "do")}
      [] s.pc = "do" ->
           {Step(NoResponse, "recv")}
           \cup {Step(Failure(Wrapped(e)), "return") : e \in DoErrors(s)}
      [] s.pc = "status" -> {}
      [] s.pc = "recv" ->
           {IF e = ErrEOF \/ IsCanceledExact(e)
              THEN Step(NoResponse, "return")
              ELSE Step(Failure(Wrapped(e)), "return") : e \in ReadErrors(s)}
           \cup Chunks(s, "recv")

\* chatStream was called: the goroutine starts, the caller ranges over the
\* unbuffered channel.
NewStream(p) == [provider |-> p, pc |-> "prepare", after |-> "", cancelled |-> FALSE,
                 pending |-> NoResponse, sent |-> <<>>, chunks |-> 0,
                 closed |-> FALSE, consumer |-> "range"]

InitStream ==
    /\ Idle
    /\ callIn = NotCalled
    /\ callOut = NotCalled
    /\ scan = NoScan
    /\ store = NoStore
    /\ embed = NoEmbed
    /\ \E p \in Providers : stream = NewStream(p)

StreamUnchanged ==
    UNCHANGED <<uiVars, ragVars, queryIn, queryOut, callIn, callOut, scan, store, embed>>

\* One step of the goroutine: up to its next send or return.
Advance(steps) ==
    /\ stream.pc \in {"prepare", "do", "status", "recv"}
    /\ \E r \in steps :
          stream' = IF r.send = NoResponse
                      THEN [stream EXCEPT !.pc = r.next]
                      ELSE [stream EXCEPT !.pc = "send", !.pending = r.send,
                                          !.after = r.next,
                                          !.chunks = IF r.send.err = NoErr THEN @ + 1 ELSE @]
    /\ StreamUnchanged

OllamaStep == stream.provider = "ollama" /\ Advance(ollamaChatStream(stream))
AnthropicStep == stream.provider = "anthropic" /\ Advance(anthropicChatStream(stream))
OpenAIStep == stream.provider = "openai" /\ Advance(openaiChatStream(stream))

\* The cancel function of the request context is called.
CancelStream ==
    /\ stream.pc # "returned"
    /\ ~stream.cancelled
    /\ stream' = [stream EXCEPT !.cancelled = TRUE]
    /\ StreamUnchanged

\* responseChan <- v meets the receive of rag.chat's range; rag.chat
\* returns on an error value.
StreamReceive ==
    /\ stream.pc = "send"
    /\ stream.consumer = "range"
    /\ stream' = [stream EXCEPT !.pc = stream.after,
                                !.pending = NoResponse,
                                !.sent = Append(@, stream.pending),
                                !.consumer = IF stream.pending.err # NoErr
                                               THEN "returned" ELSE @]
    /\ StreamUnchanged

\* The goroutine returns: the deferred close(responseChan) runs.
StreamReturn ==
    /\ stream.pc = "return"
    /\ stream' = [stream EXCEPT !.pc = "returned", !.closed = TRUE]
    /\ StreamUnchanged

\* rag.chat's range ends on the closed channel.
StreamRangeEnd ==
    /\ stream.closed
    /\ stream.consumer = "range"
    /\ stream' = [stream EXCEPT !.consumer = "drained"]
    /\ StreamUnchanged

NextStream ==
    \/ OllamaStep
    \/ AnthropicStep
    \/ OpenAIStep
    \/ CancelStream
    \/ StreamReceive
    \/ StreamReturn
    \/ StreamRangeEnd

SpecStream == InitStream /\ [][NextStream]_vars

\* --------------------------------------------- ragSystemPrompt on its own
\* The merged passages of a turn: up to MaxPromptDocs results, each with the
\* filename its document got in scanFiles.
PromptDocs == {Result(id, c, 9, "", 0, f) : id \in {"a"}, c \in {<<"x">>, <<"y", "z">>, <<>>},
                                            f \in {"a.md", "b.md"}}

PromptInputs == UNION {[1..n -> PromptDocs] : n \in 0..MaxPromptDocs}

InitPrompt ==
    /\ Idle
    /\ callIn \in PromptInputs
    /\ callOut = NotCalled
    /\ scan = NoScan
    /\ store = NoStore
    /\ embed = NoEmbed
    /\ stream = NoStream

DoRagSystemPrompt ==
    /\ ~callOut.done
    /\ callOut' = Returned(ragSystemPrompt(callIn))
    /\ UNCHANGED <<uiVars, ragVars, queryIn, queryOut, callIn, scan, store, embed, stream>>

NextPrompt == DoRagSystemPrompt

SpecPrompt == InitPrompt /\ [][NextPrompt]_vars

\* ------------------------------------- chunkDocument then mergeChunks
\* strconv.Atoi on the chunkIndex that chunkDocument printed with %d.
Atoi(str) ==
    IF \E n \in 0..MaxRoundTripChunks : ToString(n) = str
    THEN CHOOSE n \in 0..MaxRoundTripChunks : ToString(n) = str
    ELSE 0

\* The result a query returns for a stored chunk: its ID, content and
\* metadata, with a similarity.
ResultOf(chunk, sim) ==
    Result(chunk.ID, chunk.Content, sim, chunk.Metadata.originalID,
           Atoi(chunk.Metadata.chunkIndex), chunk.Metadata.filename)

\* The orders in which n results can come back.
ChunkOrders(n) == {perm \in [1..n -> 1..n] : \A i, j \in 1..n : i # j => perm[i] # perm[j]}

\* The document of n bytes.
DocumentOfLen(n) == Document("doc", ContentOfLen(n), [filename |-> "f"])

\* A document of more than chunkSize bytes and an order for its chunks.
RoundTripInputs ==
    UNION {{[doc |-> DocumentOfLen(n), perm |-> perm] :
                perm \in ChunkOrders(Len(chunkDocument(DocumentOfLen(n))))} :
            n \in {k \in (chunkSize + 1)..MaxContentLen :
                      Len(chunkDocument(DocumentOfLen(k))) <= MaxRoundTripChunks}}

\* The results for the chunks of the document, in the order perm.
ChunkResults(in) ==
    LET chunks == chunkDocument(in.doc)
    IN [i \in 1..Len(chunks) |->
           ResultOf(chunks[in.perm[i]], ragSimiliarityThreshold + in.perm[i])]

InitRoundTrip ==
    /\ Idle
    /\ callIn \in RoundTripInputs
    /\ callOut = NotCalled
    /\ scan = NoScan
    /\ store = NoStore
    /\ embed = NoEmbed
    /\ stream = NoStream

DoRoundTrip ==
    /\ ~callOut.done
    /\ \E order \in KeyOrders(ChunkResults(callIn)) :
          callOut' = Returned(mergeChunks(ChunkResults(callIn), order))
    /\ UNCHANGED <<uiVars, ragVars, queryIn, queryOut, callIn, scan, store, embed, stream>>

NextRoundTrip == DoRoundTrip

SpecRoundTrip == InitRoundTrip /\ [][NextRoundTrip]_vars

\* ------------------------------------------------ newMainModel on its own
roleConvo == "convo"
roleTitleGen == "title-gen"
roleEmbedder == "embedder"
Roles == {roleConvo, roleTitleGen, roleEmbedder}

\* What the database holds when the program starts: the providers with
\* settings and the roles with an LLM setting.
Configurations == [providers : SUBSET Providers, llms : SUBSET Roles]

\* newMainModel: the key map is made, the sessions, the chat, the options
\* and the documents are initialised; the view state is never assigned and
\* keeps its zero value.
newMainModel(cfg) == [viewState |-> viewStateSessions, keymap |-> newKeymap, err |-> NoErr]

InitNew ==
    /\ Idle
    /\ callIn \in Configurations
    /\ callOut = NotCalled
    /\ scan = NoScan
    /\ store = NoStore
    /\ embed = NoEmbed
    /\ stream = NoStream

DoNewMainModel ==
    /\ ~callOut.done
    /\ callOut' = Returned(newMainModel(callIn))
    /\ UNCHANGED <<uiVars, ragVars, queryIn, queryOut, callIn, scan, store, embed, stream>>

NextNew == DoNewMainModel

SpecNew == InitNew /\ [][NextNew]_vars

\* ================================================================ claims

RetrievalErrors == {ErrGetCollection, ErrQuery, ErrQueryCanceled}

\* The task returned from inside the retrieval loop.
RetrieveFailed(t) == task[t].pc = "returned" /\ task[t].docPos <= Len(Documents)

\* C1: if retrieve fails for one of the documents the turn is aborted:
\* exactly one event is emitted, an error event with the turn's chatIndex;
\* chatStream is never invoked and no token and no done event is emitted.
\* And an error of the retrieval is only ever emitted that way.
C1_RetrieveFailureAborts ==
    \A t \in Tasks :
        /\ RetrieveFailed(t) =>
              /\ Len(task[t].events) = 1
              /\ task[t].events[1].err \in RetrievalErrors
        /\ \A i \in 1..Len(task[t].events) :
              task[t].events[i].err \in RetrievalErrors =>
                  /\ Len(task[t].events) = 1
                  /\ task[t].events[1].chatIndex = task[t].index
                  /\ ~task[t].events[1].done
                  /\ task[t].pc = "returned"
                  /\ ~task[t].called
                  /\ task[t].cs = <<>>
                  /\ task[t].produced = <<>>

\* C1 witness: the second document's retrieval failed after the first one
\* succeeded, and the event loop has received the error event.
C1_Witness ==
    \E t \in Tasks :
        /\ RetrieveFailed(t)
        /\ task[t].docPos = 2
        /\ task[t].ragDocs # <<>>
        /\ fwd = NoMsg
        /\ err \in RetrievalErrors

\* C2: the events of a turn are the provider's chunks in the order it
\* produced them, then, once the task has returned, exactly one terminal
\* event (done, or an error), and nothing after it.
C2_EventsInOrderThenTerminal ==
    \A t \in Tasks :
        LET n == Len(task[t].produced)
            ev == task[t].events
        IN /\ Len(ev) = n + (IF task[t].pc = "returned" THEN 1 ELSE 0)
           /\ \A k \in 1..n :
                 /\ ev[k].content = task[t].produced[k]
                 /\ ev[k].err = NoErr
                 /\ ~ev[k].done
                 /\ ev[k].chatIndex = task[t].index
           /\ task[t].pc = "returned" =>
                 /\ ev[n + 1].done \/ ev[n + 1].err # NoErr
                 /\ ev[n + 1].content = <<>>

\* C2 witness: a turn streamed two different chunks and then its done event.
C2_Witness ==
    \E t \in Tasks :
        /\ task[t].pc = "returned"
        /\ Len(task[t].produced) = 2
        /\ task[t].produced[1] # task[t].produced[2]
        /\ Last(task[t].events).done

\* The positions of the results document.retrieve has to keep.
KeptPositions == {i \in 1..Len(queryIn.results) :
                     queryIn.results[i].Similarity >= ragSimiliarityThreshold}

KthOf(S, k) == CHOOSE i \in S : Cardinality({j \in S : j < i}) = k - 1

\* C10: on an existing collection and a successful query, document.retrieve
\* returns exactly the results of similarity >= 0.5, in the order of the
\* index: one at exactly 0.5 is kept, every one below is dropped.
C10_ThresholdFilter ==
    (queryOut # NotRun /\ queryIn.err = NoErr /\ vectordb[Documents[1]]) =>
        /\ queryOut.err = NoErr
        /\ Len(queryOut.res) = Cardinality(KeptPositions)
        /\ \A k \in 1..Len(queryOut.res) :
              queryOut.res[k] = queryIn.results[KthOf(KeptPositions, k)]

\* C10 witness: the index returned similarities 0.9, 0.6, 0.4, 0.5 and
\* retrieve returned the first, second and fourth result.
C10_Witness ==
    /\ queryOut # NotRun
    /\ Len(queryIn.results) = 4
    /\ [i \in 1..4 |-> queryIn.results[i].Similarity] = <<9, 6, 4, 5>>
    /\ [i \in 1..Len(queryOut.res) |-> queryOut.res[i].ID] = <<"r1", "r2", "r4">>

\* The event loop receives the message the forwarder holds.
Receives == fwd # NoMsg /\ fwd' = NoMsg

\* The position in m.sessions of the session with the given ID.
SessionIndex(id) == CHOOSE i \in 1..Len(sessions) : sessions[i].ID = id

\* C3: when a stream completes without error, after the done event is
\* handled the selected session's history ends with an assistant message
\* whose content is the concatenation of the streamed chunks, and so does
\* rag.chats; for every number of chunks, zero included.
C3_DoneLeavesAssistantMessage ==
    [][(Receives /\ fwd.done /\ viewState = viewStateChat) =>
          LET chats == sessions'[selectedSessionIndex].Chats
              content == Flatten(task[fwd.task].produced)
          IN /\ ~crashed'
             /\ Len(chats) > 0
             /\ Last(chats).Role = roleAssistant
             /\ Last(chats).Content = content
             /\ Len(ragChats) > 0
             /\ Last(ragChats).Role = roleAssistant
             /\ Last(ragChats).Content = content]_vars

NoUserMessageFailed ==
    \A s \in 1..Len(sessions) : \A i \in 1..Len(sessions[s].Chats) :
        sessions[s].Chats[i].Role = roleUser => ~sessions[s].Chats[i].Failed

\* C4: when a turn ends with an error that is not a cancellation, the
\* history of its session keeps the user message and ends with an assistant
\* message that has Failed = true and the fallback text; no user message is
\* ever marked Failed.
C4_ErrorMarksAssistantFailed ==
    [][/\ NoUserMessageFailed'
       /\ (Receives /\ fwd.err # NoErr /\ fwd.err \notin {ErrQueryCanceled, ErrProviderCanceled}) =>
             LET t == fwd.task
                 chats == sessions'[SessionIndex(task[t].session)].Chats
             IN /\ ~crashed'
                /\ chats[task[t].index] = Chat(roleUser, task[t].msg)
                /\ Last(chats) = [Role |-> roleAssistant, Content |-> FallbackText,
                                  Failed |-> TRUE]]_vars

C6_CancelNeverShownAsError ==
    err \notin {ErrQueryCanceled, ErrProviderCanceled}

\* The rag.chat tasks that are running.
Running == {t \in Tasks : task[t].pc \notin {"none", "returned"}}

\* C7: at every moment at most one rag.chat task is running.
C7_AtMostOneTask == Cardinality(Running) <= 1

IsPrefix(a, b) == Len(a) <= Len(b) /\ SubSeq(b, 1, Len(a)) = a

\* C8: the message list passed to chatStream is one system message at
\* position 0 followed by the history, which ends with the new user
\* message; rag.chats never contains a system message.
C8_SystemMessageThenHistory ==
    /\ \A i \in 1..Len(ragChats) : ragChats[i].Role # roleSystem
    /\ \A t \in Tasks :
          task[t].called =>
              LET cs == task[t].cs
              IN /\ Len(cs) >= 2
                 /\ cs[1].Role = roleSystem
                 /\ \A i \in 2..Len(cs) : cs[i].Role # roleSystem
                 /\ IsPrefix(Tail(cs), ragChats)
                 /\ Last(cs) = Chat(roleUser, task[t].msg)

\* C9: retrieving against a document without a collection is no error, so
\* only a failed query keeps a turn from the provider call.
C9_MissingCollectionIsNoError ==
    \A t \in Tasks :
        (task[t].pc = "returned" /\ ~task[t].called) =>
            task[t].events[1].err \in {ErrQuery, ErrQueryCanceled}

\* The title generations started earlier for the session with the given ID.
TitlesOf(id) == {i \in 1..Len(titles) : titles[i].session = id}

\* C20: title generation is triggered once per session: the first done
\* event received while the session is untitled starts it, and a further
\* one is started for that session only if every earlier one failed, also
\* when a further turn completes before the first title response arrived.
C20_TitleTriggeredOnce ==
    [][/\ (/\ Receives /\ fwd.done /\ viewState = viewStateChat /\ ~crashed'
           /\ sessions[selectedSessionIndex].Name = <<>>
           /\ TitlesOf(sessions[selectedSessionIndex].ID) = {}) =>
              /\ Len(titles') = Len(titles) + 1
              /\ Last(titles').session = sessions[selectedSessionIndex].ID
       /\ Len(titles') > Len(titles) =>
              \A i \in TitlesOf(Last(titles').session) : titles[i].state = "failed"]_vars

\* The message contents in a search text, in the order they appear in it.
Included(text) == SelectSeq(text, LAMBDA x : x \notin {"User: ", "Assistant: ", "\n"})

Range(s) == {s[i] : i \in 1..Len(s)}

\* The history is N complete pairs: user, assistant, user, assistant, ...
CompletePairs(chats) ==
    /\ Len(chats) % 2 = 0
    /\ \A i \in 1..Len(chats) :
          chats[i].Role = (IF i % 2 = 1 THEN roleUser ELSE roleAssistant)

Min(a, b) == IF a < b THEN a ELSE b

\* C18: for a history of N complete user/assistant pairs the search text
\* holds, once each, the messages of the last min(N, 2) pairs and the new
\* message, and no older message; for N = 0 it is exactly the new message.
C18_SearchTextWindow ==
    (callOut.done /\ CompletePairs(callIn.chats)) =>
        LET h == callIn.chats
            n == Len(h) \div 2
            k == Min(n, 2)
            window == {h[i].Content[1] : i \in (Len(h) - 2 * k + 1)..Len(h)}
        IN /\ Range(Included(callOut.val)) = window \cup {callIn.msg[1]}
           /\ Len(Included(callOut.val)) = 2 * k + 1
           /\ n = 0 => callOut.val = callIn.msg

\* C18 witness: three complete pairs, and the search text holds the last
\* two of them and the new message.
C18_Witness ==
    /\ callOut.done
    /\ CompletePairs(callIn.chats)
    /\ Len(callIn.chats) = 6
    /\ Range(Included(callOut.val)) = {"m3", "m4", "m5", "m6", "new"}

\* The positions in the history of the messages a search text includes.
PositionOf(chats, x) == CHOOSE i \in 1..Len(chats) : chats[i].Content[1] = x

\* C19: the messages in the search text are in chronological order, most
\* recent last: a user message before the reply that answered it, older
\* pairs before newer ones, the new message last.
C19_SearchTextChronological ==
    callOut.done =>
        LET inc == Included(callOut.val)
            h == Append(callIn.chats, Chat(roleUser, callIn.msg))
        IN \A i, j \in 1..Len(inc) :
               i < j => PositionOf(h, inc[i]) < PositionOf(h, inc[j])

\* C15: chunkDocument on a document whose content has at most 500 bytes
\* returns exactly one chunk, the document itself.
C15_SmallDocumentUnchanged ==
    (callOut.done /\ Len(callIn.Content) <= 500) => callOut.val = <<callIn>>

\* C15 witness: a document of exactly 500 bytes came back as itself.
C15_Witness ==
    /\ callOut.done
    /\ Len(callIn.Content) = 500
    /\ callOut.val = <<callIn>>

\* Chunk 0 in full, then every later chunk without its first 50 bytes.
Reconstruct(chunks) ==
    chunks[1].Content
    \o Flatten([k \in 1..(Len(chunks) - 1) |->
                  SubSeq(chunks[k + 1].Content, 51, Len(chunks[k + 1].Content))])

\* C16: for a content of more than 500 bytes, chunk 0 followed by every
\* later chunk without its first 50 bytes is the original content.
C16_ChunksReconstructContent ==
    (callOut.done /\ Len(callIn.Content) > 500) =>
        Reconstruct(callOut.val) = callIn.Content

\* C16 witness: a content of 1000 bytes went into three chunks, and the
\* second one starts with the last 50 bytes of the first.
C16_Witness ==
    /\ callOut.done
    /\ Len(callIn.Content) = 1000
    /\ Len(callOut.val) = 3
    /\ SubSeq(callOut.val[2].Content, 1, 50) = SubSeq(callOut.val[1].Content, 451, 500)

\* C17: for a content of L > 500 bytes chunkDocument returns
\* ceil((L - 500) / 450) + 1 chunks, with the ids <documentID>-chunk-0..n
\* and the chunkIndex 0..n in order; every chunk but the last has 500
\* bytes and the last one is not empty.
C17_ChunkCountAndIds ==
    (callOut.done /\ Len(callIn.Content) > 500) =>
        LET L == Len(callIn.Content)
            n == Len(callOut.val)
        IN /\ n = ((L - 500 + 449) \div 450) + 1
           /\ \A k \in 1..n :
                 /\ callOut.val[k].ID = callIn.ID \o "-chunk-" \o ToString(k - 1)
                 /\ callOut.val[k].Metadata = [filename |-> callIn.Metadata.filename,
                                           originalID |-> callIn.ID,
                                           chunkIndex |-> ToString(k - 1)]
                 /\ k < n => Len(callOut.val[k].Content) = 500
           /\ Len(callOut.val[n].Content) \in 1..500

\* C17 witness: 940 bytes, where the second chunk ends the content: two
\* chunks, the last one with 490 bytes.
C17_Witness ==
    /\ callOut.done
    /\ Len(callIn.Content) = 940
    /\ Len(callOut.val) = 2
    /\ callOut.val[2].ID = "doc-chunk-1"
    /\ Len(callOut.val[2].Content) = 490

\* The results of the input that fall in the group of key g, in input order.
GroupOf(docs, g) == SelectSeq(docs, LAMBDA d : GroupKey(d) = g)

\* The results of the output that carry the group of key g.
OutputsOf(out, g) == SelectSeq(out, LAMBDA d : GroupKey(d) = g)

RECURSIVE AppendedContent(_, _, _, _)
AppendedContent(chunks, i, last, content) ==
    IF i > Len(chunks) THEN content
    ELSE IF chunks[i].chunkIndex = last + 1
         THEN AppendedContent(chunks, i + 1, chunks[i].chunkIndex,
                  content \o SubSeq(chunks[i].Content, 51, Len(chunks[i].Content)))
         ELSE AppendedContent(chunks, i + 1, last, content)

\* C13: in a group of several chunks sorted by chunkIndex, a chunk is
\* appended only if its chunkIndex is one more than the index of the last
\* chunk that was appended: for the indices 0, 2 the content is chunk 0
\* alone, for 0, 2, 3 neither chunk 2 nor chunk 3 is appended.
C13_AppendOnlyAfterLastAppended ==
    callOut.done =>
        \A g \in GroupKeys(callIn) :
            LET chunks == SortByChunkIndex(GroupOf(callIn, g))
            IN Len(chunks) >= 2 =>
                  /\ Len(OutputsOf(callOut.val, g)) = 1
                  /\ OutputsOf(callOut.val, g)[1].Content =
                        AppendedContent(chunks, 2, chunks[1].chunkIndex, chunks[1].Content)

SourcesOf(passage) ==
    {p \in 1..Len(callIn) : callIn[p].ID = passage.ID}
    \cup {passage.Content[k] \div 100 : k \in 1..Len(passage.Content)}

\* The number of results of the input with a greater similarity.
RankAbove(p) ==
    Cardinality({q \in 1..Len(callIn) : callIn[q].Similarity > callIn[p].Similarity})

\* C11: the passages handed to ragSystemPrompt are at most 10, in order of
\* non-increasing similarity, and built only from the 20 results of highest
\* similarity: at most 20 results contribute, and none that has 20 results
\* above it.
C11_PassagesFromTopTwenty ==
    callOut.done =>
        LET out == callOut.val
            sources == UNION {SourcesOf(out[i]) : i \in 1..Len(out)}
        IN /\ Len(out) <= 10
           /\ \A i, j \in 1..Len(out) : i < j => out[i].Similarity >= out[j].Similarity
           /\ Cardinality(sources) <= 20
           /\ \A p \in sources : RankAbove(p) < 20

\* C11 witness: 22 results, the last one (similarity 0.6, ranked below the
\* 20th) is chunk 0 of the document the first result is chunk 1 of; ten
\* passages come out and the first result is among them as it went in.
C11_Witness ==
    /\ callOut.done
    /\ Len(callIn) = 22
    /\ callIn[22].originalID = "o1" /\ callIn[1].originalID = "o1"
    /\ callIn[22].Similarity = 6 /\ callIn[1].Similarity = 9
    /\ Len(callOut.val) = 10
    /\ \E i \in 1..10 : callOut.val[i] = callIn[1]

\* A title command's response is handled in this step.
TitleHandled(i) == titles[i].state = "pending" /\ titles'[i].state # "pending"

\* The reply of the title model was an error or had no text.
TitleReplyFailed(res) == res.err # NoErr \/ res.content = <<>>

RECURSIVE TrimLeft(_)
TrimLeft(s) == IF s # <<>> /\ Head(s) = " " THEN TrimLeft(Tail(s)) ELSE s

TrimSpace(s) == Reverse(TrimLeft(Reverse(TrimLeft(s))))

\* C22: the title the model returns is trimmed and validated before use: a
\* title that is empty or only whitespace is rejected as an error and never
\* stored, so a session's name is empty or has text, and is trimmed.
C22_BlankTitleRejected ==
    \A s \in 1..Len(sessions) :
        sessions[s].Name # <<>> =>
            /\ TrimSpace(sessions[s].Name) # <<>>
            /\ TrimSpace(sessions[s].Name) = sessions[s].Name

\* The consumer saw the cancelled context in its loop and returned.
ConsumerSawCancel ==
    /\ scan.cons = "returned"
    /\ scan.progress # <<>>
    /\ Last(scan.progress).err = ErrAddCanceled
    /\ scan.item # 0
    /\ scan.originalFileCount < scan.handed

\* C23: after a scan is cancelled and storeDocument has seen the
\* cancellation and returned, every producer goroutine eventually exits
\* and scanFiles returns: nothing stays blocked on the documents channel.
C23_ProducersExitAfterCancel ==
    ConsumerSawCancel ~>
        /\ \A f \in Files : scan.prod[f] \in {"none", "exit"}
        /\ scan.walker \in {"closed", "failed"}

\* The producers between acquiring and releasing the semaphore.
Holding == {f \in Files : scan.prod[f] \in {"read", "send", "release"}}

\* C24: at most NumCPU producers are at any time between acquiring and
\* releasing the semaphore, and a producer gets past its send on the
\* unbuffered documents channel only in a step in which the consumer, in
\* its range loop, receives that producer's document.
C24_BoundedProducers ==
    [][/\ Cardinality(Holding') <= NumCPU
       /\ scan'.sem = Cardinality(Holding')
       /\ \A f \in Files :
             (scan.prod[f] = "send" /\ scan'.prod[f] # "send") =>
                 /\ scan.cons = "recv"
                 /\ scan'.cons = "check"
                 /\ scan'.item = f
                 /\ scan.kinds[f] = "text"]_vars

\* C24 witness: three files were visited, NumCPU producers hold the
\* semaphore, one of them waiting to hand over, the third waits for it.
C24_Witness ==
    /\ Cardinality(Holding) = NumCPU
    /\ \E f \in Files : scan.prod[f] = "send"
    /\ \E f \in Files : scan.prod[f] = "acquire"

\* C25: in a scan that is not cancelled and whose walk and index insertion
\* succeed, unreadable and empty files are skipped without an error
\* message, and the scan ends with exactly one done message, the last one,
\* whose scannedFileCount is the number of readable non-empty files.
C25_ScanSkipsUnreadable ==
    (/\ scan.cons = "returned" /\ ~scan.cancelled /\ scan.walker # "failed"
     /\ \A i \in 1..Len(scan.progress) :
           scan.progress[i].err \notin {ErrCreateCollection, ErrAddDocuments}) =>
        /\ \A i \in 1..Len(scan.progress) : scan.progress[i].err = NoErr
        /\ Cardinality({i \in 1..Len(scan.progress) : scan.progress[i].done}) = 1
        /\ Last(scan.progress).done
        /\ Last(scan.progress).scannedFileCount
              = Cardinality({f \in Files : scan.kinds[f] = "text"})

\* C25 witness: one file of each kind, the scan ended with the done
\* message and a count of one.
C25_Witness ==
    /\ scan.cons = "returned"
    /\ ~scan.cancelled
    /\ {scan.kinds[f] : f \in Files} = FileKinds
    /\ Last(scan.progress).done
    /\ Last(scan.progress).scannedFileCount = 1

\* C27: deleting a source document deletes its vector collection: no
\* collection named doc-<id> of a deleted document is in the vector index.
C27_DeleteDropsCollection ==
    \A id \in store.deleted : vectorDBCollectionName([ID |-> id]) \notin store.collections

\* C26: every step of the UI that changes a session's messages or name
\* (the user message on submit, the assistant message appended, extended
\* or marked failed, the title) hands the new state of that session to
\* saveSession in the same step.
C26_SavedInSameStep ==
    [][\A s \in 1..Len(sessions') :
          (\/ s > Len(sessions)
           \/ sessions'[s].Chats # sessions[s].Chats
           \/ sessions'[s].Name # sessions[s].Name) =>
              db'[sessions'[s].ID] = Saved(sessions'[s])]_vars

\* The calls of the embedding function that returned a vector.
EmbedReturned == {c \in 1..Len(embed.calls) :
                     embed.calls[c].pc = "returned" /\ embed.calls[c].err = NoErr}

\* C28: every vector one embedding function instance returns has length
\* 1.0, whatever the provider answered before it, and the function of the
\* sync.Once ran at most once.
C28_ReturnedNormalized ==
    /\ \A c \in EmbedReturned : isNormalized(embed.calls[c].v)
    /\ embed.checks <= 1

\* The values chatStream put on its channel, the one it is sending included.
StreamValues == stream.sent \o (IF stream.pc = "send" THEN <<stream.pending>> ELSE <<>>)

\* C29: for each provider, the goroutine of chatStream has closed the
\* channel when it has returned, an error value is the last value it
\* sends, and no value it sends is the error of a cancelled context.
C29_StreamEndsCleanly ==
    /\ stream.pc = "returned" => stream.closed
    /\ \A i \in 1..Len(StreamValues) :
          StreamValues[i].err # NoErr => i = Len(StreamValues)
    /\ \A i \in 1..Len(StreamValues) : ~ErrorsIsCanceled(StreamValues[i].err)

\* The positions of the separators in a prompt, in order.
RECURSIVE SeparatorsFrom(_, _)
SeparatorsFrom(prompt, i) ==
    IF i > Len(prompt) THEN <<>>
    ELSE (IF prompt[i] = "---" THEN <<i>> ELSE <<>>) \o SeparatorsFrom(prompt, i + 1)

\* Where the instructions of a prompt start.
GuidelinesAt(prompt) == CHOOSE i \in 1..Len(prompt) : prompt[i] = "GUIDELINES:"

\* The k-th passage of a prompt: from its separator to the next one, or to
\* the instructions.
PassageAt(prompt, k) ==
    LET seps == SeparatorsFrom(prompt, 1)
        to == IF k < Len(seps) THEN seps[k + 1] - 1 ELSE GuidelinesAt(prompt) - 1
    IN SubSeq(prompt, seps[k] + 1, to)

Instructions(prompt) == {prompt[i] : i \in GuidelinesAt(prompt)..Len(prompt)}

\* The instructions the prompt is to carry, and the one it is not to carry.
AnswerOnlyFromKnowledge == "Answer only from the provided knowledge"
SayNotKnown == "Say you do not have this information when the knowledge lacks it"
ExternalKnowledgeAllowed == Guidelines[4]

\* C30: the system prompt carries the merged passages in the order of the
\* list, the i-th as [filename] followed by its content; its instructions
\* tell the model to answer only from that knowledge and to say so when
\* the knowledge lacks the answer, and none allows external knowledge.
C30_PromptGroundsAnswer ==
    callOut.done =>
        /\ Len(SeparatorsFrom(callOut.val, 1)) = Len(callIn)
        /\ \A k \in 1..Len(callIn) :
              PassageAt(callOut.val, k) = <<"[", callIn[k].filename, "]">> \o callIn[k].Content
        /\ AnswerOnlyFromKnowledge \in Instructions(callOut.val)
        /\ SayNotKnown \in Instructions(callOut.val)
        /\ ExternalKnowledgeAllowed \notin Instructions(callOut.val)

\* The positions at which two message lists differ.
ChangedAt(old, new) ==
    {k \in 1..Len(new) : k > Len(old) \/ new[k] # old[k]}

\* C33: an event the event loop receives changes no session but the one its
\* turn was submitted in, and there only from the message index the event
\* carries on (a done event carries none), whatever the user did between
\* the submit and the event.
C33_EventToOwnSession ==
    [][(Receives /\ ~crashed') =>
          \A s \in 1..Len(sessions) :
             sessions'[s] # sessions[s] =>
                /\ sessions[s].ID = task[fwd.task].session
                /\ \/ fwd.done
                   \/ \A k \in ChangedAt(sessions[s].Chats, sessions'[s].Chats) :
                         k = fwd.chatIndex + 1]_vars

\* C34: a generated title names the session whose completed turn started
\* the generation, whatever sessions the user selected, created or deleted
\* before the title response arrived.
C34_TitleToTriggeringSession ==
    \A i \in 1..Len(titles) :
       titles[i].state = "named" => titles[i].named = titles[i].session

\* Every user message of the list was submitted in the session with the
\* given ID (the texts of the turns are distinct).
OnlyMessagesOf(chats, id) ==
    \A k \in 1..Len(chats) :
       chats[k].Role = roleUser =>
          \E u \in Tasks : /\ task[u].pc # "none"
                           /\ task[u].msg = chats[k].Content
                           /\ task[u].session = id

\* C35: the messages a turn sends to the provider, and the history a
\* pending title generation reads, hold only messages of the session the
\* turn was submitted in.
C35_NoForeignMessages ==
    /\ \A t \in Tasks : task[t].called => OnlyMessagesOf(task[t].cs, task[t].session)
    /\ \A i \in 1..Len(titles) :
          titles[i].state = "pending" => OnlyMessagesOf(ragChats, titles[i].session)

\* No turn is in flight: no rag.chat task is running and no event of one
\* waits for the event loop.
NoTurnInFlight == Running = {} /\ fwd = NoMsg

\* C36: when no turn is in flight chatCancelFunc is nil, after a turn that
\* ended by done and after one that ended by error, so that one escape in
\* the Chat view leads to the Sessions view.
C36_CancelFuncClearedAtEnd ==
    (NoTurnInFlight /\ ~crashed) => chatCancelFunc = 0

\* C37: a turn whose context the user cancelled adds no assistant message
\* to rag.chats when its stream ends, and its done event starts no title
\* generation.
C37_CancelledTurnLeavesNoTrace ==
    [][/\ \A t \in Tasks :
             (ctxCancelled[t] /\ task[t].pc = "stream" /\ task'[t].pc # "stream") =>
                ragChats' = ragChats
       /\ (Receives /\ fwd.done /\ ctxCancelled[fwd.task]) => titles' = titles]_vars

\* The passages when the map chunkGroups is ranged over in the order in
\* which its keys were inserted.
ReferencePassages(ragDocs) ==
    Passages(ragDocs, FirstKeys(Take(SortBySimilarityDesc(ragDocs), ragNeededCount * 2), <<>>))

\* C38: for given retrieval results the passages handed to ragSystemPrompt
\* are one fixed list: the same whichever order the map of mergeChunks is
\* ranged over, in their order and in which of them survive the cut to 10.
C38_PassagesDeterministic ==
    callOut.done => callOut.val = ReferencePassages(callIn)

\* The progress messages of the scan that carry the error of the walk.
WalkErrors == {i \in 1..Len(scan.progress) : scan.progress[i].err = ErrWalk}

\* C39: after the directory walk failed, the error of the walk was
\* reported once and storeDocument eventually returns, having sent no done
\* message.
C39_WalkFailureEndsConsumer ==
    (scan.walker = "failed") ~>
        /\ scan.cons = "returned"
        /\ Cardinality(WalkErrors) = 1
        /\ \A i \in 1..Len(scan.progress) : ~scan.progress[i].done

\* C40: the chunks chunkDocument makes of a document of more than 500
\* bytes, handed to mergeChunks in any order, come back as one result
\* whose content is the content of the document.
C40_ChunkMergeRoundTrip ==
    callOut.done =>
        /\ Len(callOut.val) = 1
        /\ callOut.val[1].Content = callIn.doc.Content

\* C40 witness: a document of four chunks, handed over last chunk first,
\* came back whole.
C40_Witness ==
    /\ callOut.done
    /\ Len(callIn.doc.Content) = MaxContentLen
    /\ callIn.perm = <<4, 2, 1, 3>>
    /\ Len(callOut.val) = 1
    /\ Len(callOut.val[1].Content) = MaxContentLen

\* C32: in every reachable state m.viewState equals m.keymap.viewState,
\* because every view transition goes through setViewState.
C32_KeymapFollowsView == viewState = keymap.viewState

\* C32 witness: a session was picked and both the model and its key map
\* are at the chat view.
C32_Witness ==
    /\ viewState = viewStateChat
    /\ keymap.viewState = viewStateChat
    /\ selectedSessionIndex > 0

\* C31: with no provider and no LLM role configured, the model newMainModel
\* returns has the options view as its view state.
C31_EmptyConfigOpensOptions ==
    (callOut.done /\ callIn.providers = {} /\ callIn.llms = {}) =>
        callOut.val.viewState = viewStateOptions

====
